---- MODULE Spec2Model ----
(***************************************************************************)
(* Model of shinysdr/webstatic/client/widget.js: the SpectrumView          *)
(* coordinate model, the SpectrumPlot averaging stage and the WaterfallPlot *)
(* history buffer with its GL and 2D back ends.                             *)
(*                                                                         *)
(* Numbers.  JavaScript numbers of the coordinate model are modelled as    *)
(* exact rationals <<n, d>> (d > 0, lowest terms) and NaN as <<0, 0>>.     *)
(* Frequencies are integers counted in kHz, so the source's 100e3 Hz is    *)
(* 100.  Float32Array elements of the averaging stage are modelled as      *)
(* binary floating point numbers <<m, e>> = m * 2^e with a 24 bit          *)
(* significand.                                                            *)
(***************************************************************************)
EXTENDS Integers, Sequences, FiniteSets, TLC

VARIABLES
  \* ---- environment of SpectrumView: cells, DOM, storage, scheduler ----
  inputRate,        \* radio.input_rate cell
  sourceFreq,       \* radio.source.freq cell
  fftLength,        \* radio.spectrum_fft.get().length
  offsetWidth,      \* container.offsetWidth
  scrollLeft,       \* container.scrollLeft
  stubWidth,        \* scrollStub.style.width (px)
  storage,          \* persistent store: [zoom, scroll], each a number string or Null
  snapUp,           \* layout rounds a fractional content width up (else down)
  prepareQueued,    \* prepare is waiting on the scheduler
  scrollEventPending, \* a 'scroll' event is waiting to be dispatched
  \* ---- SpectrumView private state (widget.js 229-240) ----
  zoom, fractionalScroll,
  bandwidth, centerFreq, leftFreq, pixelWidth, pixelsPerHertz, cacheScrollLeft,
  \* ---- observation of the latest SpectrumView operation ----
  lastView,
  ops,
  \* ---- SpectrumPlot averaging stage (widget.js 783-810) ----
  plotBackend,       \* "gl" or "2d": which of buildGL / build2D made the drawImpl
  spectrumAverage,   \* clientState.spectrum_average cell (avgAlphaCell)
  hasAverageBuffer,  \* averageBuffer is not null
  averageBuffer,     \* the Float32Array, a sequence of float32 values
  plotLastDrawnCenterFreq,  \* lastDrawnCenterFreq of SpectrumPlot
  ingests,           \* history of the commonNewData calls made so far
  plotDraw,          \* how the latest draw of the plot ended
  \* ---- the Notifier view.n and the scheduler, for the draw callback ----
  listeners,         \* registrations of draw on view.n not yet notified
  drawQueued,        \* draw is enqueued on the scheduler
  \* ---- WaterfallPlot (widget.js 1040-1503) ----
  wfBackend,         \* "gl" or "2d"
  useFloatTexture,   \* buildGL: float textures are used (1109-1111)
  putImageDataNaN,   \* what this browser's putImageData does with dx = NaN
  wfOffsetHeight,    \* canvas.offsetHeight, the laid-out height
  canvasWidth,       \* canvas.width
  canvasHeight,      \* canvas.height
  cleared,
  fftSize,           \* buildGL: width of the textures
  intConversionBuffer,  \* buildGL: the byte conversion buffer is allocated
  texture,           \* buildGL: per history row, bufferTexture and historyFreqTexture
  uniforms,          \* buildGL: the values given to gl.uniform1f by beforeDraw
  slicePtr,
  slices,            \* build2D: the circular buffer of [image, freq]
  wfLastDrawnCenterFreq,  \* build2D: lastDrawnCenterFreq
  dataToDraw,        \* build2D: <<>> for null, else <<fftBundle>>
  canvasRows,        \* build2D: what each row of the canvas shows
  delivered,         \* the frames delivered to newFFTFrame so far, in order
  lastWrite,         \* observation of the latest history write
  lastDraw,          \* observation of the latest performDraw
  \* ---- CanvasSpectrumWidget (widget.js 669-777) ----
  useWebGL,          \* clientState.opengl as the constructor read it (674)
  glObtainable,      \* this browser gives a canvas a WebGL context
  contextLost,       \* the WebGL context of the canvas is lost
  instance,          \* number of the widget built on this node, from 1
  builtAt,           \* frames delivered before the present drawImpl was built
  sinceTick,         \* frames of the latest batch: delivered with no draw between them
  drawRuns,          \* runs of draw since the latest frame
  \* ---- VisibleItemCache (widget.js 1875-1910) ----
  itemCache          \* cache, count, the parent's children and their my_inUse

viewVars == <<inputRate, sourceFreq, fftLength, offsetWidth, scrollLeft, stubWidth,
              snapUp, storage, prepareQueued, scrollEventPending, zoom, fractionalScroll,
              bandwidth, centerFreq, leftFreq, pixelWidth, pixelsPerHertz,
              cacheScrollLeft, lastView>>

avgVars == <<plotBackend, spectrumAverage, hasAverageBuffer, averageBuffer,
             plotLastDrawnCenterFreq, ingests, plotDraw>>

schedVars == <<listeners, drawQueued>>

wfVars == <<wfBackend, useFloatTexture, putImageDataNaN, wfOffsetHeight, canvasWidth,
            canvasHeight, cleared, fftSize, intConversionBuffer, texture, uniforms,
            slicePtr, slices, wfLastDrawnCenterFreq, dataToDraw, canvasRows, delivered,
            lastWrite, lastDraw>>

widgetVars == <<useWebGL, glObtainable, contextLost, instance, builtAt, sinceTick,
                drawRuns, itemCache>>

vars == <<viewVars, ops, avgVars, schedVars, wfVars, widgetVars>>

\* getItem of a key that was never set
Null == <<>>

\* new VisibleItemCache(parent, maker) (1875-1877) on an empty parent: cache
\* is the set of keys of the Map, children the keys whose elements are in the
\* parent, inUse those whose element has my_inUse set; the other fields
\* observe the calls: added, the keys passed to add since the latest flush,
\* twice, whether one of them was passed more than once, flushed, the same
\* two as the latest flush found them, and outcome, how the latest call ended
NewVisibleItemCache ==
  [cache |-> {}, children |-> {}, inUse |-> {}, count |-> 0,
   added |-> {}, twice |-> FALSE, flushed |-> [added |-> {}, twice |-> FALSE],
   outcome |-> "new"]

-----------------------------------------------------------------------------
(* Exact rational arithmetic.                                              *)

Abs(i) == IF i < 0 THEN -i ELSE i

RECURSIVE GCD(_, _)
GCD(a, b) == IF b = 0 THEN a ELSE GCD(b, a % b)

NaN == <<0, 0>>

IsNaN(q) == q[2] = 0

Rat(n, d) ==
  IF d = 0 THEN NaN
  ELSE LET g == GCD(Abs(n), Abs(d))
           s == IF d < 0 THEN -1 ELSE 1
       IN  <<(s * n) \div g, (s * d) \div g>>

I2R(i) == <<i, 1>>

RAdd(p, q) == IF IsNaN(p) \/ IsNaN(q) THEN NaN
              ELSE Rat(p[1] * q[2] + q[1] * p[2], p[2] * q[2])
RNeg(p) == IF IsNaN(p) THEN NaN ELSE <<-p[1], p[2]>>
RSub(p, q) == RAdd(p, RNeg(q))
RMul(p, q) == IF IsNaN(p) \/ IsNaN(q) THEN NaN
              ELSE Rat(p[1] * q[1], p[2] * q[2])
RDiv(p, q) == IF IsNaN(p) \/ IsNaN(q) \/ q[1] = 0 THEN NaN
              ELSE Rat(p[1] * q[2], p[2] * q[1])
\* comparisons with NaN are false, as in JavaScript
RLe(p, q) == ~IsNaN(p) /\ ~IsNaN(q) /\ p[1] * q[2] <= q[1] * p[2]
RLt(p, q) == ~IsNaN(p) /\ ~IsNaN(q) /\ p[1] * q[2] < q[1] * p[2]
\* Math.max / Math.min: NaN if either argument is NaN
MathMax(p, q) == IF IsNaN(p) \/ IsNaN(q) THEN NaN ELSE IF RLe(p, q) THEN q ELSE p
MathMin(p, q) == IF IsNaN(p) \/ IsNaN(q) THEN NaN ELSE IF RLe(p, q) THEN p ELSE q
\* Math.floor on a rational, as an integer (\div rounds toward minus infinity)
MathFloor(p) == p[1] \div p[2]
\* Math.round: nearest integer, halves toward plus infinity
MathRound(p) == (2 * p[1] + p[2]) \div (2 * p[2])

\* widget.js mod(value, modulus) with modulus 1: the fractional part
Mod1(p) == IF IsNaN(p) THEN NaN ELSE RSub(p, I2R(MathFloor(p)))

-----------------------------------------------------------------------------
(* Bounds and inputs of the coordinate model.                              *)

MaxViewOps == 2

MAX_ZOOM_BINS == 60
ZoomHz == 100   \* 100e3 Hz, in kHz

InputRates == {200, 1000}
SourceFreqs == {1000, 1050}
Widths == {4, 6}
FftLengths == {60, 240}
\* exp(-delta * 0.0005) for the wheel deltas tried: a positive factor
ZoomFactors == {<<1, 2>>, <<3, 4>>, <<3, 1>>}
\* what an earlier session left in the store: nothing, or a zoom and scroll pair
StoredStates == {[zoom |-> <<>>, scroll |-> <<>>],
                 [zoom |-> <<(<<2, 1>>)>>, scroll |-> <<(<<3, 2>>)>>]}

-----------------------------------------------------------------------------
(* Binary floating point: <<m, e>> is m * 2^e, kept with m odd (or <<0, 0>>).*)
(* A Float32Array element holds a value with a significand of 24 bits.  The  *)
(* double arithmetic of the averaging loop is exact on the values used here  *)
(* (their sums and products fit 53 bits), so only the store rounds.          *)

RECURSIVE Pow2(_)
Pow2(n) == IF n = 0 THEN 1 ELSE 2 * Pow2(n - 1)

RECURSIVE FNorm(_, _)
FNorm(m, e) == IF m = 0 THEN <<0, 0>>
               ELSE IF m % 2 = 0 THEN FNorm(m \div 2, e + 1) ELSE <<m, e>>

FMin(a, b) == IF a < b THEN a ELSE b

FAdd(x, y) ==
  IF x[1] = 0 THEN y
  ELSE IF y[1] = 0 THEN x
  ELSE LET e == FMin(x[2], y[2])
       IN  FNorm(x[1] * Pow2(x[2] - e) + y[1] * Pow2(y[2] - e), e)
FNeg(x) == <<-x[1], x[2]>>
FSub(x, y) == FAdd(x, FNeg(y))
FMul(x, y) == FNorm(x[1] * y[1], x[2] + y[2])
FAbs(x) == <<Abs(x[1]), x[2]>>
FLe(x, y) == FSub(y, x)[1] >= 0

RECURSIVE FPow(_, _)
FPow(x, n) == IF n = 0 THEN <<1, 0>> ELSE FMul(x, FPow(x, n - 1))

Float32Bits == 24

\* the number of low bits of m that do not fit the significand
RECURSIVE ExcessBits(_)
ExcessBits(m) == IF m < Pow2(Float32Bits) THEN 0 ELSE 1 + ExcessBits(m \div 2)

\* storing x into a Float32Array: round to nearest, ties to even
Float32(x) ==
  LET a == Abs(x[1])
      s == ExcessBits(a)
      q == a \div Pow2(s)
      r == a % Pow2(s)
      up == s > 0 /\ (2 * r > Pow2(s) \/ (2 * r = Pow2(s) /\ q % 2 = 1))
      n == IF up THEN q + 1 ELSE q
  IN  IF s = 0 THEN x
      ELSE FNorm(IF x[1] < 0 THEN -n ELSE n, x[2] + s)

-----------------------------------------------------------------------------
(* SpectrumPlot, the averaging stage (widget.js 779-810, 922-943, 1005-1008).*)

MaxIngests == 3

F0 == <<0, 0>>
F10 == <<5, 1>>
\* two neighbouring float32 values, 8388609 and 8388610
FBigA == <<8388609, 0>>
FBigB == <<4194305, 1>>

\* the values tried for the averaging coefficient: 1/2, 1/4
Alphas == {<<1, -1>>, <<1, -2>>}

\* the frames tried: [freq, mags], freq a number of kHz or NaN
Frames ==
  {[freq |-> <<1000, 1>>, mags |-> <<F10>>],
   [freq |-> <<1000, 1>>, mags |-> <<F0>>],
   [freq |-> <<1050, 1>>, mags |-> <<F10>>],
   [freq |-> NaN,         mags |-> <<F10>>],
   [freq |-> <<1000, 1>>, mags |-> <<FBigA>>],
   [freq |-> <<1000, 1>>, mags |-> <<FBigB>>],
   [freq |-> <<1000, 1>>, mags |-> <<F10, F0>>],
   [freq |-> NaN,         mags |-> <<F0, F10>>],
   [freq |-> <<1000, 1>>, mags |-> <<>>]}

\* a !== b on numbers: NaN differs from everything
NumberDiffers(a, b) == IsNaN(a) \/ IsNaN(b) \/ a # b

\* new Float32Array(buffer) (804)
NewFloat32Array(buffer) == [i \in 1..Len(buffer) |-> Float32(buffer[i])]

\* a reset condition that does not look at isNaN
NeedsResetOnAnyDifference(fftBundle) ==
  \/ ~hasAverageBuffer
  \/ Len(averageBuffer) # Len(fftBundle.mags)
  \/ NumberDiffers(plotLastDrawnCenterFreq, fftBundle.freq)

\* a reset condition that keeps a buffer longer than the frame
NeedsResetOnLongerFrame(fftBundle) ==
  \/ ~hasAverageBuffer
  \/ Len(averageBuffer) < Len(fftBundle.mags)
  \/ (/\ NumberDiffers(plotLastDrawnCenterFreq, fftBundle.freq)
      /\ ~IsNaN(fftBundle.freq))

\* the condition of the reset branch (799-802)
NeedsReset(fftBundle) ==
  \/ ~hasAverageBuffer
  \/ Len(averageBuffer) # Len(fftBundle.mags)
  \/ (/\ NumberDiffers(plotLastDrawnCenterFreq, fftBundle.freq)
      /\ ~IsNaN(fftBundle.freq))

\* the two weights exchanged
BlendSwapped(avg, incoming, alpha) ==
  Float32(FAdd(FMul(avg, alpha), FMul(incoming, FSub(<<1, 0>>, alpha))))

\* the old value kept whole
BlendAccumulating(avg, incoming, alpha) ==
  Float32(FAdd(avg, FMul(incoming, alpha)))

\* averageBuffer[i] * invAlpha + buffer[i] * alpha, stored (808)
Blend(avg, incoming, alpha) ==
  Float32(FAdd(FMul(avg, FSub(<<1, 0>>, alpha)), FMul(incoming, alpha)))

\* the same sum before it is stored
BlendExact(avg, incoming, alpha) ==
  FAdd(FMul(avg, FSub(<<1, 0>>, alpha)), FMul(incoming, alpha))

\* the averaging loop (807-809) over the whole buffer
Averaged(avgBuf, buffer, alpha) ==
  [i \in 1..Len(buffer) |-> Blend(avgBuf[i], buffer[i], alpha)]

\* commonNewData(fftBundle) (790-810)
commonNewData(fftBundle) ==
  LET alpha == spectrumAverage
      reset == NeedsReset(fftBundle)
      start == IF reset THEN NewFloat32Array(fftBundle.mags) ELSE averageBuffer
  IN  /\ plotLastDrawnCenterFreq' =
           IF reset THEN fftBundle.freq ELSE plotLastDrawnCenterFreq
      /\ hasAverageBuffer' = TRUE
      /\ averageBuffer' = Averaged(start, fftBundle.mags, alpha)
      /\ ingests' = Append(ingests,
           [frame |-> fftBundle, alpha |-> alpha, reset |-> reset,
            before |-> averageBuffer, after |-> averageBuffer',
            rounded |-> \E i \in 1..Len(fftBundle.mags) :
                           BlendExact(start[i], fftBundle.mags[i], alpha)
                             # averageBuffer'[i]])

\* drawOuter() of the plot (743-755, 766): buildGL's beforeDraw (956-973) does
\* not read averageBuffer; build2D's performDraw reads averageBuffer.length
\* (1015), a TypeError while averageBuffer is null
plotDrawOuter ==
  IF plotBackend = "2d" /\ ~hasAverageBuffer
  THEN [kind |-> "TypeError"]
  ELSE [kind |-> "drawn"]

\* the plot before any frame (788-789), after the draw() of the constructor (776)
InitPlot ==
  /\ plotBackend \in {"gl", "2d"}
  /\ spectrumAverage \in Alphas
  /\ hasAverageBuffer = FALSE
  /\ averageBuffer = <<>>
  /\ plotLastDrawnCenterFreq = NaN
  /\ ingests = <<>>
  /\ plotDraw = plotDrawOuter

InitIdlePlot ==
  /\ plotBackend = "2d"
  /\ spectrumAverage = <<1, -1>>
  /\ hasAverageBuffer = FALSE
  /\ averageBuffer = <<>>
  /\ plotLastDrawnCenterFreq = NaN
  /\ ingests = <<>>
  /\ plotDraw = [kind |-> "none"]

-----------------------------------------------------------------------------
(* WaterfallPlot: state, and the history of the GL backend (1073-1091,       *)
(* 1159, 1225-1288, 1301-1391).  A frame is [seq, freq, len]: its number in  *)
(* delivery order, its center frequency in kHz and its bin count; the pixels *)
(* computed from a frame are named by the frame's number.                    *)

\* stands for Math.max(1024, element height) (1073-1075)
HistoryCount == 3

MaxFrames == HistoryCount + 1

\* the frames tried: [freq, len], center frequency in kHz and bin count
WfFrames == {[freq |-> 1000, len |-> 4], [freq |-> 1050, len |-> 4],
             [freq |-> 1000, len |-> 2], [freq |-> 1000, len |-> 0]}
WfOffsetHeights == {2, 3}
\* canvas.width before any frame: the default of a canvas element
CanvasDefaultWidth == 300
\* config.target.get().length when the widget is built
WfInitialLengths == {0, 4}

Min(a, b) == IF a < b THEN a ELSE b
Max(a, b) == IF a < b THEN b ELSE a

\* widget.js mod(value, modulus) (31-33) on integers
mod(value, modulus) == value % modulus

\* the four bytes with the highest first
PackFreqHighFirst(f) ==
  <<(f \div 16777216) % 256, (f \div 65536) % 256, (f \div 256) % 256, f % 256>>

\* (bufferCenterFreq >> k) & 0xFF for k = 0, 8, 16, 24 (1372-1375), f in Hz
PackFreq(f) ==
  <<f % 256, (f \div 256) % 256, (f \div 65536) % 256, (f \div 16777216) % 256>>

\* what historyFreqTexture holds for a frame of center frequency f kHz:
\* the float32 of the number of Hz (1341), or its four bytes
StoredFreq(f) ==
  IF useFloatTexture THEN Float32(FNorm(f * 1000, 0)) ELSE PackFreq(f * 1000)

\* historyFreq of the fragment shader (1138) for the texel v of four bytes:
\* ((a * 256 + b) * 256 + g) * 256 + r in highp float, each channel times
\* 255.0 being the byte; every product and sum is a float of 24 bits
UnpackFreq(v) ==
  LET byte(i) == FNorm(v[i], 0)
      times256(x) == Float32(FMul(x, <<1, 8>>))
      plus(x, y) == Float32(FAdd(x, y))
  IN  plus(times256(plus(times256(plus(times256(byte(4)), byte(3))), byte(2))),
           byte(1))

\* configureTexture() (1225-1288): every row holds the initial values
ConfiguredTexture ==
  [s \in 1..HistoryCount |->
     [row |-> 0,
      freq |-> IF useFloatTexture THEN Float32(FNorm(-1000000, 0))
               ELSE <<0, 0, 0, 0>>]]

\* commonBeforeDraw (1086): Math.floor(Math.min(canvas.offsetHeight, historyCount))
NewHeight == Min(wfOffsetHeight, HistoryCount)

BlankRow == [fill |-> "blank", image |-> 0, x |-> 0]
GrayRow == [fill |-> "gray", image |-> 0, x |-> 0]
ImageRow(image, x) == [fill |-> "image", image |-> image, x |-> x]
BlankRows(h) == [y \in 1..h |-> BlankRow]

NoWrite == [slot |-> -1, seq |-> 0]
NoDraw == [kind |-> "none"]

\* beforeDraw's uniforms (1397-1401)
Uniforms ==
  [scroll |-> Rat(slicePtr, HistoryCount),
   yScale |-> Rat(NewHeight, HistoryCount),
   freqScale |-> RDiv(I2R(1), I2R(bandwidth)),
   currentFreq |-> centerFreq]

\* a waterfall built on the view and drawn once (1093, 776)
InitWaterfall ==
  /\ useFloatTexture \in (IF wfBackend = "gl" THEN BOOLEAN ELSE {FALSE})
  /\ putImageDataNaN \in (IF wfBackend = "2d" THEN {"zero", "throw"} ELSE {"zero"})
  /\ wfOffsetHeight \in WfOffsetHeights
  /\ canvasWidth = CanvasDefaultWidth
  /\ canvasHeight = NewHeight
  /\ cleared = FALSE
  /\ fftSize = (IF wfBackend = "gl" THEN Max(1, fftLength) ELSE 0)
  /\ intConversionBuffer = FALSE
  /\ texture = (IF wfBackend = "gl" THEN ConfiguredTexture ELSE <<>>)
  /\ slicePtr = 0
  /\ uniforms = (IF wfBackend = "gl" THEN Uniforms ELSE [scroll |-> NaN])
  /\ slices = <<>>
  /\ wfLastDrawnCenterFreq = (IF wfBackend = "2d" THEN I2R(centerFreq) ELSE NaN)
  /\ dataToDraw = <<>>
  /\ canvasRows = (IF wfBackend = "2d" THEN BlankRows(canvasHeight) ELSE <<>>)
  /\ delivered = <<>>
  /\ lastWrite = NoWrite
  /\ lastDraw = NoDraw
  /\ listeners = (IF wfBackend = "gl" THEN 2 ELSE 1)
  /\ drawQueued = FALSE
  /\ contextLost = FALSE
  /\ instance = 1
  /\ builtAt = 0
  /\ sinceTick = 0
  /\ drawRuns = 0
  /\ itemCache = NewVisibleItemCache

\* no waterfall on the page
IdleWaterfall ==
  /\ wfBackend = "none"
  /\ useFloatTexture = FALSE
  /\ putImageDataNaN = "zero"
  /\ wfOffsetHeight = 2
  /\ canvasWidth = CanvasDefaultWidth
  /\ canvasHeight = 2
  /\ cleared = TRUE
  /\ fftSize = 0
  /\ intConversionBuffer = FALSE
  /\ texture = <<>>
  /\ uniforms = [scroll |-> NaN]
  /\ slicePtr = 0
  /\ slices = <<>>
  /\ wfLastDrawnCenterFreq = NaN
  /\ dataToDraw = <<>>
  /\ canvasRows = <<>>
  /\ delivered = <<>>
  /\ lastWrite = NoWrite
  /\ lastDraw = NoDraw
  /\ drawQueued = FALSE
  /\ useWebGL = FALSE
  /\ glObtainable = FALSE
  /\ contextLost = FALSE
  /\ instance = 0
  /\ builtAt = 0
  /\ sinceTick = 0
  /\ drawRuns = 0
  /\ itemCache = NewVisibleItemCache

\* no waterfall, and no draw callback registered on view.n
InitIdleWaterfall ==
  /\ IdleWaterfall
  /\ listeners = 0

\* a notification that keeps the registrations
NotifyAndKeep ==
  /\ drawQueued' = (drawQueued \/ listeners > 0)
  /\ listeners' = listeners

\* Notifier.notify() as prepare calls it (253): every registered callback is
\* enqueued once, and the registrations are dropped
Notify ==
  /\ drawQueued' = (drawQueued \/ listeners > 0)
  /\ listeners' = 0

-----------------------------------------------------------------------------
(* The DOM and the store, as SpectrumView uses them.                        *)

\* String(number) and parseFloat(string): String gives the shortest decimal that
\* parses back to the same number; parseFloat of a missing item (null) is NaN
NumberToString(q) == <<q>>
ParseFloat(s) == IF s = Null THEN NaN ELSE s[1]

\* x || dflt for a number x: NaN and 0 are falsy
OrElse(q, dflt) == IF IsNaN(q) \/ q[1] = 0 THEN dflt ELSE q

\* largest scrollLeft of a container of width client whose content is content px wide
ScrollMax(content, client) ==
  LET whole == IF snapUp THEN -MathFloor(RNeg(content)) ELSE MathFloor(content)
  IN  IF whole > client THEN whole - client ELSE 0

\* layout keeps the scroll position inside the scrollable range
ClampScroll(s, content, client) ==
  IF s < 0 THEN 0
  ELSE IF s > ScrollMax(content, client) THEN ScrollMax(content, client) ELSE s

\* container.scrollLeft = q: the position is a whole number inside the range
\* (a value that is not finite is taken as 0)
SetScrollLeft(q, content, client) ==
  ClampScroll(IF IsNaN(q) THEN 0 ELSE MathFloor(q), content, client)

-----------------------------------------------------------------------------
(* SpectrumView (widget.js 213-391).                                        *)

\* per-frame parameters whose left edge is a whole bandwidth below the center
prepareFromFullBandwidth(z) ==
  [bandwidth       |-> inputRate,
   centerFreq      |-> sourceFreq,
   leftFreq        |-> RSub(I2R(sourceFreq), I2R(inputRate)),
   pixelWidth      |-> offsetWidth,
   pixelsPerHertz  |-> RMul(Rat(offsetWidth, inputRate), z),
   cacheScrollLeft |-> scrollLeft]

\* per-frame parameters computed without reading the container's scroll offset
prepareUnscrolled(z) ==
  [bandwidth       |-> inputRate,
   centerFreq      |-> sourceFreq,
   leftFreq        |-> RSub(I2R(sourceFreq), Rat(inputRate, 2)),
   pixelWidth      |-> offsetWidth,
   pixelsPerHertz  |-> RMul(Rat(offsetWidth, inputRate), z),
   cacheScrollLeft |-> 0]

\* prepare() (242-254) run with zoom z: the per-frame parameters it assigns
prepare(z) ==
  [bandwidth       |-> inputRate,
   centerFreq      |-> sourceFreq,
   leftFreq        |-> RSub(I2R(sourceFreq), Rat(inputRate, 2)),
   pixelWidth      |-> offsetWidth,
   pixelsPerHertz  |-> RMul(Rat(offsetWidth, inputRate), z),
   cacheScrollLeft |-> scrollLeft]

\* the current per-frame parameters, as a record of the same shape
layout ==
  [bandwidth |-> bandwidth, centerFreq |-> centerFreq, leftFreq |-> leftFreq,
   pixelWidth |-> pixelWidth, pixelsPerHertz |-> pixelsPerHertz,
   cacheScrollLeft |-> cacheScrollLeft]

\* the left edge of the band, wherever the container is scrolled to
leftVisibleFreqUnscrolled(L) == L.leftFreq

leftVisibleFreq(L) == RAdd(L.leftFreq, RDiv(I2R(L.cacheScrollLeft), L.pixelsPerHertz))
rightVisibleFreq(L) ==
  RAdd(L.leftFreq, RDiv(I2R(L.cacheScrollLeft + L.pixelWidth), L.pixelsPerHertz))
getVisiblePixelWidth(L) == I2R(L.pixelWidth)
\* number + 'px' (277): the CSS length that the string denotes
Px(q) == <<NumberToString(q), "px">>
freqToCSSLeft(L, freq) == Px(RMul(RSub(freq, L.leftFreq), L.pixelsPerHertz))
getTotalPixelWidth(L) == RMul(L.pixelsPerHertz, I2R(L.bandwidth))

\* lvf * (1 - cursor01) + rvf * cursor01 (315, 325)
CursorFreq(L, cursor01) ==
  RAdd(RMul(leftVisibleFreq(L), RSub(I2R(1), cursor01)),
       RMul(rightVisibleFreq(L), cursor01))

\* maxZoom of changeZoom (305-309)
MaxZoom(bw, len) ==
  MathMax(I2R(1), MathMax(Rat(bw, ZoomHz), Rat(len, MAX_ZOOM_BINS)))

\* a zoom clamp that forgets the upper limit
ClampZoomLowerOnly(z, maxZoom) == MathMax(I2R(1), z)

\* the zoom clamp (320)
ClampZoom(z, maxZoom) == MathMin(maxZoom, MathMax(I2R(1), z))

\* the scroll clamp (333)
ClampVirtualScroll(s, w, pw) == MathMax(I2R(0), MathMin(RSub(w, I2R(pw)), s))

\* the frequency shown at visible pixel x, from the true scroll position
FreqUnderPixel(x) ==
  RAdd(leftFreq,
       RDiv(RAdd(RAdd(I2R(scrollLeft), fractionalScroll), I2R(x)), pixelsPerHertz))

AssignLayout(L) ==
  /\ bandwidth' = L.bandwidth
  /\ centerFreq' = L.centerFreq
  /\ leftFreq' = L.leftFreq
  /\ pixelWidth' = L.pixelWidth
  /\ pixelsPerHertz' = L.pixelsPerHertz
  /\ cacheScrollLeft' = L.cacheScrollLeft

\* the same assignments in the constructor's call (256)
AssignedLayout(L) ==
  /\ bandwidth = L.bandwidth
  /\ centerFreq = L.centerFreq
  /\ leftFreq = L.leftFreq
  /\ pixelWidth = L.pixelWidth
  /\ pixelsPerHertz = L.pixelsPerHertz
  /\ cacheScrollLeft = L.cacheScrollLeft

NoView == [op |-> "none"]

InitView ==
  /\ inputRate \in InputRates
  /\ sourceFreq = 1000
  /\ fftLength = 60
  /\ offsetWidth \in Widths
  /\ snapUp \in BOOLEAN
  /\ storage \in StoredStates
  /\ zoom = OrElse(ParseFloat(storage.zoom), I2R(1))
  /\ stubWidth = RMul(I2R(offsetWidth), zoom)
  /\ LET initScroll == OrElse(ParseFloat(storage.scroll), I2R(0))
     IN  /\ scrollLeft = SetScrollLeft(initScroll, stubWidth, offsetWidth)
         /\ fractionalScroll = Mod1(initScroll)
  /\ AssignedLayout(prepare(zoom))
  /\ prepareQueued = FALSE
  /\ scrollEventPending = FALSE
  /\ lastView = NoView
  /\ ops = 0
  /\ InitIdlePlot
  /\ InitIdleWaterfall

\* one constructed view, for the specifications that leave it alone
InitViewOf(len) ==
  /\ inputRate = 200
  /\ sourceFreq = 1000
  /\ fftLength = len
  /\ offsetWidth = 4
  /\ snapUp = FALSE
  /\ storage = [zoom |-> <<>>, scroll |-> <<>>]
  /\ zoom = I2R(1)
  /\ stubWidth = I2R(4)
  /\ scrollLeft = 0
  /\ fractionalScroll = I2R(0)
  /\ AssignedLayout(prepare(zoom))
  /\ prepareQueued = FALSE
  /\ scrollEventPending = FALSE
  /\ lastView = NoView
  /\ ops = 0

InitViewIdle == InitViewOf(60)

\* a call that leaves the scheduler's queue as it is
enqueueNothing == UNCHANGED prepareQueued

\* scheduler.enqueue(prepare) (341)
enqueuePrepare == prepareQueued' = TRUE

\* changeZoom(delta, cursorX) (304-342), factor = Math.exp(-delta * 0.0005)
changeZoom(factor, cursorX) ==
  /\ ops < MaxViewOps
  /\ ops' = ops + 1
  /\ \E cursor01 \in {RDiv(RAdd(I2R(cursorX), fractionalScroll), I2R(pixelWidth))} :
     \E cursorFreq \in {CursorFreq(layout, cursor01)} :
     \E rawZoom \in {RMul(zoom, factor)} :
       /\ zoom' = ClampZoom(rawZoom, MaxZoom(bandwidth, fftLength))
       \* prepare() with the new zoom (323)
       /\ AssignLayout(prepare(zoom'))
       /\ stubWidth' = RMul(I2R(pixelWidth'), zoom')
       \* reading scrollLeft (331) lays the resized stub out first
       /\ \E read \in {ClampScroll(scrollLeft, stubWidth', offsetWidth)} :
          \E adjusted \in
               {RAdd(RAdd(I2R(read), fractionalScroll),
                     RMul(RSub(cursorFreq, CursorFreq(layout', cursor01)),
                          pixelsPerHertz'))} :
          \E scroll \in {ClampVirtualScroll(adjusted, stubWidth', pixelWidth')} :
            /\ scrollLeft' = SetScrollLeft(scroll, stubWidth', offsetWidth)
            /\ fractionalScroll' = RSub(scroll, I2R(scrollLeft'))
            /\ storage' = [zoom |-> NumberToString(zoom'),
                           scroll |-> NumberToString(scroll)]
            /\ lastView' = [op |-> "changeZoom", cursorX |-> cursorX,
                            before |-> FreqUnderPixel(cursorX),
                            zoomClamped |-> zoom' # rawZoom,
                            scrollClamped |-> scroll # adjusted,
                            settled |-> (/\ cacheScrollLeft = scrollLeft
                                         /\ ~prepareQueued
                                         /\ ~scrollEventPending),
                            relaidOut |-> read # scrollLeft,
                            anchorInRange |->
                              LET anchored ==
                                    RSub(RMul(RAdd(RAdd(I2R(scrollLeft), fractionalScroll),
                                                   I2R(cursorX)),
                                              RDiv(zoom', zoom)),
                                         I2R(cursorX))
                              IN  /\ RLe(I2R(0), anchored)
                                  /\ RLe(anchored, RSub(stubWidth', I2R(pixelWidth')))]
  /\ enqueuePrepare
  /\ scrollEventPending' = (scrollEventPending \/ scrollLeft' # scrollLeft)
  /\ UNCHANGED <<inputRate, sourceFreq, fftLength, offsetWidth, snapUp>>
  /\ UNCHANGED <<avgVars, widgetVars>>
  /\ UNCHANGED wfVars
  /\ Notify

ChangeZoom == \E factor \in ZoomFactors : \E cursorX \in {0, offsetWidth} :
                changeZoom(factor, cursorX)

\* the scheduler runs the queued prepare (256, 341 and the cells' depend(prepare))
RunPrepare ==
  /\ prepareQueued
  /\ prepareQueued' = FALSE
  /\ AssignLayout(prepare(zoom))
  /\ lastView' = [op |-> "prepare"]
  /\ UNCHANGED <<inputRate, sourceFreq, fftLength, offsetWidth, scrollLeft, stubWidth,
                 snapUp, storage, scrollEventPending, zoom, fractionalScroll, ops>>
  /\ UNCHANGED <<avgVars, widgetVars>>
  /\ UNCHANGED wfVars
  /\ Notify

\* the user drags the scroll bar; the 'scroll' event follows
UserScroll ==
  /\ ops < MaxViewOps
  /\ ops' = ops + 1
  /\ \E s \in {0, scrollLeft - 1, scrollLeft + 1, ScrollMax(stubWidth, offsetWidth)} :
       /\ s # scrollLeft
       /\ s = ClampScroll(s, stubWidth, offsetWidth)
       /\ scrollLeft' = s
  /\ scrollEventPending' = TRUE
  /\ lastView' = [op |-> "userScroll"]
  /\ UNCHANGED <<inputRate, sourceFreq, fftLength, offsetWidth, stubWidth, snapUp, storage,
                 prepareQueued, zoom, fractionalScroll, bandwidth, centerFreq, leftFreq,
                 pixelWidth, pixelsPerHertz, cacheScrollLeft>>
  /\ UNCHANGED <<avgVars, widgetVars>>
  /\ UNCHANGED wfVars
  /\ UNCHANGED schedVars

\* the 'scroll' listener (263-267)
ScrollEvent ==
  /\ scrollEventPending
  /\ scrollEventPending' = FALSE
  /\ storage' = [storage EXCEPT
                   !.scroll = NumberToString(RAdd(I2R(scrollLeft), fractionalScroll))]
  /\ AssignLayout(prepare(zoom))
  /\ lastView' = [op |-> "scroll"]
  /\ UNCHANGED <<inputRate, sourceFreq, fftLength, offsetWidth, scrollLeft, stubWidth,
                 snapUp, prepareQueued, zoom, fractionalScroll, ops>>
  /\ UNCHANGED <<avgVars, widgetVars>>
  /\ UNCHANGED wfVars
  /\ Notify

\* the window is resized and the 'resize' listener runs (258-261)
WindowResize ==
  /\ ops < MaxViewOps
  /\ ops' = ops + 1
  /\ \E w \in Widths \ {offsetWidth} :
       /\ offsetWidth' = w
       /\ scrollLeft' = ClampScroll(scrollLeft, stubWidth, w)
  /\ scrollEventPending' = (scrollEventPending \/ scrollLeft' # scrollLeft)
  /\ bandwidth' = inputRate
  /\ centerFreq' = sourceFreq
  /\ leftFreq' = RSub(I2R(sourceFreq), Rat(inputRate, 2))
  /\ pixelWidth' = offsetWidth'
  /\ pixelsPerHertz' = RMul(Rat(offsetWidth', inputRate), zoom)
  /\ cacheScrollLeft' = scrollLeft'
  /\ lastView' = [op |-> "resize"]
  /\ UNCHANGED <<inputRate, sourceFreq, fftLength, stubWidth, snapUp, storage,
                 prepareQueued, zoom, fractionalScroll>>
  /\ UNCHANGED <<avgVars, widgetVars>>
  /\ UNCHANGED wfVars
  /\ Notify

\* the source is retuned: the freq cell changes and notifies prepare (246)
Retune ==
  /\ ops < MaxViewOps
  /\ ops' = ops + 1
  /\ \E f \in SourceFreqs \ {sourceFreq} : sourceFreq' = f
  /\ prepareQueued' = TRUE
  /\ lastView' = [op |-> "retune"]
  /\ UNCHANGED <<inputRate, fftLength, offsetWidth, scrollLeft, stubWidth, snapUp, storage,
                 scrollEventPending, zoom, fractionalScroll, bandwidth, centerFreq,
                 leftFreq, pixelWidth, pixelsPerHertz, cacheScrollLeft>>
  /\ UNCHANGED <<avgVars, widgetVars>>
  /\ UNCHANGED wfVars
  /\ UNCHANGED schedVars

\* a frame of another length arrives in radio.spectrum_fft (309)
FftLengthChange ==
  /\ ops < MaxViewOps
  /\ ops' = ops + 1
  /\ \E n \in FftLengths \ {fftLength} : fftLength' = n
  /\ lastView' = [op |-> "fft"]
  /\ UNCHANGED <<inputRate, sourceFreq, offsetWidth, scrollLeft, stubWidth, snapUp, storage,
                 prepareQueued, scrollEventPending, zoom, fractionalScroll, bandwidth,
                 centerFreq, leftFreq, pixelWidth, pixelsPerHertz, cacheScrollLeft>>
  /\ UNCHANGED <<avgVars, widgetVars>>
  /\ UNCHANGED wfVars
  /\ UNCHANGED schedVars

NextView ==
  \/ ChangeZoom
  \/ RunPrepare
  \/ UserScroll
  \/ ScrollEvent
  \/ WindowResize
  \/ Retune
  \/ FftLengthChange

SpecView == InitView /\ [][NextView]_vars

\* a view just constructed on an empty store (zoom 1, scroll 0), for the
\* accessors; the frequencies of this specification are in Hz
AccessorBandwidths == {1, 3, 200000, 1000000, 2000001}
AccessorCenterFreqs == {0, 7, 1000000, 100000000, 145500000}
AccessorWidths == {1, 3, 500, 1024, 1920}

InitAccessors ==
  /\ inputRate \in AccessorBandwidths
  /\ sourceFreq \in AccessorCenterFreqs
  /\ fftLength = 60
  /\ offsetWidth \in AccessorWidths
  /\ snapUp = FALSE
  /\ storage = [zoom |-> Null, scroll |-> Null]
  /\ zoom = OrElse(ParseFloat(storage.zoom), I2R(1))
  /\ stubWidth = RMul(I2R(offsetWidth), zoom)
  /\ LET initScroll == OrElse(ParseFloat(storage.scroll), I2R(0))
     IN  /\ scrollLeft = SetScrollLeft(initScroll, stubWidth, offsetWidth)
         /\ fractionalScroll = Mod1(initScroll)
  /\ AssignedLayout(prepare(zoom))
  /\ prepareQueued = FALSE
  /\ scrollEventPending = FALSE
  /\ lastView = NoView
  /\ ops = 0
  /\ InitIdlePlot
  /\ InitIdleWaterfall

\* a renderer reads the accessors (276-290)
ReadAccessors ==
  /\ lastView = NoView
  /\ lastView' = [op |-> "read",
                  left |-> leftVisibleFreq(layout),
                  right |-> rightVisibleFreq(layout),
                  cssLeft |-> freqToCSSLeft(layout, I2R(centerFreq))]
  /\ UNCHANGED <<inputRate, sourceFreq, fftLength, offsetWidth, scrollLeft, stubWidth,
                 snapUp, storage, prepareQueued, scrollEventPending, zoom,
                 fractionalScroll, bandwidth, centerFreq, leftFreq, pixelWidth,
                 pixelsPerHertz, cacheScrollLeft, ops>>
  /\ UNCHANGED <<avgVars, schedVars, wfVars, widgetVars>>

NextAccessors == ReadAccessors

SpecAccessors == InitAccessors /\ [][NextAccessors]_vars

-----------------------------------------------------------------------------
(* Claims about SpectrumView, checked under SpecView.                       *)

\* the true scroll position: the viewport's whole part plus the stored fraction
TrueScroll == RAdd(I2R(scrollLeft), fractionalScroll)

\* C1: after any changeZoom call the zoom is at least 1 and at most
\* max(1, bandwidth / 100 kHz, bin count / 60).
C1_ZoomClamp ==
  lastView.op = "changeZoom" =>
    /\ RLe(I2R(1), zoom)
    /\ \/ RLe(zoom, I2R(1))
       \/ RLe(zoom, Rat(bandwidth, 100))
       \/ RLe(zoom, Rat(fftLength, 60))

\* a changeZoom call whose raw zoom was cut down to a maximum above 1
C1_Witness ==
  /\ lastView.op = "changeZoom"
  /\ lastView.zoomClamped
  /\ RLt(I2R(1), zoom)

\* C2: when neither the zoom clamp nor the scroll clamp took effect in a
\* changeZoom(delta, x) call, the frequency under visible pixel x, taken from
\* the true scroll position, is the same after the call as before it.  The
\* calls looked at are those made with the layout up to date (no recompute
\* and no scroll event pending) for which the scroll position that keeps the
\* frequency in place lies inside the new scroll range.
C2_ZoomAnchoring ==
  (/\ lastView.op = "changeZoom"
   /\ lastView.settled
   /\ lastView.anchorInRange
   /\ ~lastView.zoomClamped
   /\ ~lastView.scrollClamped)
    => FreqUnderPixel(lastView.cursorX) = lastView.before

\* the anchoring does hold for such calls when laying the resized stub out did
\* not move the viewport before line 331 read it
ZoomAnchoringUnlessRelaidOut ==
  (/\ lastView.op = "changeZoom"
   /\ lastView.settled
   /\ ~lastView.relaidOut
   /\ ~lastView.zoomClamped
   /\ ~lastView.scrollClamped)
    => FreqUnderPixel(lastView.cursorX) = lastView.before

\* C3: in every reachable state the true scroll position lies between 0 and
\* totalPixelWidth - visiblePixelWidth of the current layout.
C3_ScrollInRange ==
  /\ RLe(I2R(0), TrueScroll)
  /\ RLe(TrueScroll, RSub(getTotalPixelWidth(layout), getVisiblePixelWidth(layout)))

-----------------------------------------------------------------------------
(* The averaging stage as a system: frames arrive, the coefficient changes. *)

\* newData of SpectrumPlot: buildGL skips an empty frame (925-927) before
\* commonNewData (934); build2D always calls it (1006)
PlotNewData ==
  /\ Len(ingests) < MaxIngests
  /\ \E fftBundle \in Frames :
       IF plotBackend = "gl" /\ Len(fftBundle.mags) = 0
       THEN UNCHANGED <<hasAverageBuffer, averageBuffer, plotLastDrawnCenterFreq,
                        ingests>>
       ELSE commonNewData(fftBundle)
  /\ UNCHANGED <<plotBackend, spectrumAverage, plotDraw>>
  /\ UNCHANGED <<viewVars, ops, schedVars, wfVars, widgetVars>>

\* the user moves the averaging control: the cell takes a new value
SetSpectrumAverage ==
  /\ \E a \in Alphas \ {spectrumAverage} : spectrumAverage' = a
  /\ UNCHANGED <<plotBackend, hasAverageBuffer, averageBuffer, plotLastDrawnCenterFreq,
                 ingests, plotDraw>>
  /\ UNCHANGED <<viewVars, ops, schedVars, wfVars, widgetVars>>

InitAvg == InitViewIdle /\ InitPlot /\ InitIdleWaterfall

NextAvg ==
  \/ PlotNewData
  \/ SetSpectrumAverage

SpecAvg == InitAvg /\ [][NextAvg]_vars

-----------------------------------------------------------------------------
(* WaterfallPlot: the two backends (1307-1404, 1418-1500).                   *)

\* the slot one behind the cursor, where the history stays as it is
KeepCursorAfterWrite(ptr) == ptr

\* slicePtr = mod(slicePtr + 1, historyCount) (1390, 1453)
AdvanceCursor(ptr) == mod(ptr + 1, HistoryCount)

\* textures reallocated only for a wider frame
NeedsReconfigureOnGrowth(len) ==
  \/ len > fftSize
  \/ (~useFloatTexture /\ ~intConversionBuffer)

\* buffer.length !== fftSize || !useFloatTexture && !intConversionBuffer (1315)
NeedsReconfigure(len) ==
  \/ len # fftSize
  \/ (~useFloatTexture /\ ~intConversionBuffer)

\* buildGL newData(fftBundle) (1307-1391)
glNewData(fftBundle) ==
  IF fftBundle.len = 0
  THEN UNCHANGED <<fftSize, intConversionBuffer, texture, canvasWidth, cleared,
                   slicePtr, lastWrite>>
  ELSE LET reconfigure == NeedsReconfigure(fftBundle.len)
           base == IF reconfigure THEN ConfiguredTexture ELSE texture
       IN  /\ fftSize' = fftBundle.len
           /\ intConversionBuffer' = (IF reconfigure THEN ~useFloatTexture
                                      ELSE intConversionBuffer)
           /\ canvasWidth' = fftBundle.len
           /\ cleared' = (cleared \/ canvasWidth # fftBundle.len)
           /\ texture' = (IF contextLost THEN texture
                           ELSE [base EXCEPT ![slicePtr + 1] =
                                   [row |-> fftBundle.seq,
                                    freq |-> StoredFreq(fftBundle.freq)]])
           /\ slicePtr' = AdvanceCursor(slicePtr)
           /\ lastWrite' = [slot |-> slicePtr, seq |-> fftBundle.seq]

\* buildGL beforeDraw() (1392-1404), then gl.drawArrays (754)
glBeforeDraw ==
  /\ listeners' = listeners + 2
  /\ canvasHeight' = NewHeight
  /\ uniforms' = (IF contextLost THEN uniforms ELSE Uniforms)
  /\ cleared' = FALSE
  /\ lastDraw' = [kind |-> "gl"]

\* the slice that the full repaint paints at row y (1483-1486):
\* i = sliceCount - y, slices[mod(i + slicePtr, sliceCount)]
SliceAtRow(ss, ptr, y) == ss[mod((Len(ss) - y) + ptr, Len(ss)) + 1]

\* Math.round(offset * offsetScale) (1477, 1493), NaN when w is undefined
PutOffset(freq, viewCenterFreq, offsetScale) ==
  LET q == RMul(I2R(freq - viewCenterFreq), offsetScale)
  IN  IF IsNaN(q) THEN NaN ELSE I2R(MathRound(q))

\* the rows that the loop of the full repaint puts (1483-1494), as
\* [y, image, freq, dx, x]: it stops at the first y >= canvas.height; dx is
\* the argument of putImageData, and x the column where a browser that
\* accepts the call puts the image, a dx of NaN being taken as 0
FullRepaintRows(ss, ptr, viewCenterFreq, offsetScale, height) ==
  {[y |-> y,
    image |-> SliceAtRow(ss, ptr, y).image,
    freq |-> SliceAtRow(ss, ptr, y).freq,
    dx |-> PutOffset(SliceAtRow(ss, ptr, y).freq, viewCenterFreq, offsetScale),
    x |-> LET q == PutOffset(SliceAtRow(ss, ptr, y).freq, viewCenterFreq, offsetScale)
          IN  IF IsNaN(q) THEN 0 ELSE q[1]] : y \in 1..Min(Len(ss), height - 1)}

\* a draw that leaves the frame it drew pending
PendingAfterDraw(d) == d

\* dataToDraw = null at the end of a draw (1498)
ConsumedAfterDraw(d) == <<>>

\* build2D performDraw() (1422-1500) with dataToDraw = d: the state it leaves
performDrawResult(d) ==
  LET hasData == d # <<>>
      viewCenterFreq == centerFreq
      \* commonBeforeDraw (1086-1090)
      heightChanged == NewHeight # canvasHeight
      height1 == NewHeight
      \* 1432-1440
      w == IF hasData THEN d[1].len ELSE -1
      widthChanged == hasData /\ canvasWidth # w
      width1 == IF widthChanged THEN w ELSE canvasWidth
      cleared1 == cleared \/ heightChanged \/ widthChanged
      rows1 == IF heightChanged \/ widthChanged THEN BlankRows(height1) ELSE canvasRows
      slices1 == IF widthChanged THEN <<>> ELSE slices
      ptr1 == IF widthChanged THEN 0 ELSE slicePtr
      \* 1449-1456
      record == [image |-> d[1].seq, freq |-> d[1].freq]
      pushes == Len(slices1) < HistoryCount
      slices2 == IF ~hasData THEN slices1
                 ELSE IF pushes THEN Append(slices1, record)
                 ELSE [slices1 EXCEPT ![ptr1 + 1] = record]
      ptr2 == IF hasData /\ ~pushes THEN AdvanceCursor(ptr1) ELSE ptr1
      written == IF pushes THEN Len(slices1) ELSE ptr1
      \* 1471
      offsetScale == IF hasData THEN Rat(w, bandwidth) ELSE NaN
      common == [canvasWidth |-> width1, canvasHeight |-> height1,
                 hadData |-> hasData, viewCenterFreq |-> viewCenterFreq,
                 prevCenter |-> wfLastDrawnCenterFreq,
                 clearedBefore |-> cleared, clearedAtBranch |-> cleared1,
                 resized |-> (heightChanged \/ widthChanged)]
      incremental == /\ hasData
                     /\ ~NumberDiffers(wfLastDrawnCenterFreq, I2R(viewCenterFreq))
                     /\ ~cleared1
      full == ~incremental /\ (cleared1
                 \/ NumberDiffers(wfLastDrawnCenterFreq, I2R(viewCenterFreq)))
      sliceCount == Len(slices2)
      \* rows the loop reaches before y >= canvas.height (1483-1487)
      loopRows == 1..Min(sliceCount, height1 - 1)
      yLast == Min(sliceCount, height1)
      throws == full /\ ~hasData /\ loopRows # {} /\ putImageDataNaN = "throw"
      repaint == FullRepaintRows(slices2, ptr2, viewCenterFreq, offsetScale, height1)
      newest == PutOffset(d[1].freq, viewCenterFreq, offsetScale)[1]
  IN  IF hasData /\ w = 0
      THEN \* 1443-1445: return
           common @@ [kind |-> "empty", completed |-> FALSE, cleared |-> cleared1,
                      slices |-> slices1, slicePtr |-> ptr1, rows |-> rows1,
                      lastDrawn |-> wfLastDrawnCenterFreq, dataToDraw |-> d,
                      painted |-> {}, puts |-> {}, wrote |-> -1]
      ELSE IF throws
      THEN \* putImageData rejects dx = NaN at the first row (1493)
           common @@ [kind |-> "abort", completed |-> FALSE, cleared |-> cleared1,
                      slices |-> slices2, slicePtr |-> ptr2, rows |-> rows1,
                      lastDrawn |-> I2R(viewCenterFreq), dataToDraw |-> d,
                      painted |-> {}, puts |-> {p \in repaint : p.y = 1},
                      wrote |-> -1]
      ELSE IF incremental
      THEN \* 1474-1477: shift down by one row, put the newest at row 0
           common @@ [kind |-> "incremental", completed |-> TRUE, cleared |-> FALSE,
                      slices |-> slices2, slicePtr |-> ptr2,
                      rows |-> [y \in 1..height1 |->
                                  IF y = 1 THEN ImageRow(record.image, newest)
                                  ELSE rows1[y - 1]],
                      lastDrawn |-> wfLastDrawnCenterFreq, dataToDraw |-> ConsumedAfterDraw(d),
                      painted |-> {[y |-> 0, image |-> record.image,
                                    freq |-> record.freq, dx |-> I2R(newest),
                                    x |-> newest]},
                      puts |-> {[y |-> 0, image |-> record.image,
                                 freq |-> record.freq, dx |-> I2R(newest),
                                 x |-> newest]},
                      wrote |-> written]
      ELSE IF full
      THEN \* 1479-1495
           common @@ [kind |-> "full", completed |-> TRUE, cleared |-> FALSE,
                      slices |-> slices2, slicePtr |-> ptr2,
                      rows |-> [y \in 1..height1 |->
                                  IF (y - 1) \in loopRows
                                  THEN LET p == CHOOSE p \in repaint : p.y = y - 1
                                       IN  ImageRow(p.image, p.x)
                                  ELSE IF hasData /\ sliceCount > 0 /\ y - 1 > yLast
                                  THEN GrayRow
                                  ELSE rows1[y]],
                      lastDrawn |-> I2R(viewCenterFreq), dataToDraw |-> ConsumedAfterDraw(d),
                      painted |-> repaint, puts |-> repaint,
                      wrote |-> IF hasData THEN written ELSE -1]
      ELSE common @@ [kind |-> "idle", completed |-> TRUE, cleared |-> FALSE,
                      slices |-> slices2, slicePtr |-> ptr2, rows |-> rows1,
                      lastDrawn |-> wfLastDrawnCenterFreq, dataToDraw |-> ConsumedAfterDraw(d),
                      painted |-> {}, puts |-> {},
                      wrote |-> IF hasData THEN written ELSE -1]

\* build2D performDraw() (1422-1500) with dataToDraw = d
performDraw(d) ==
  \E r \in {performDrawResult(d)} :
    /\ listeners' = listeners + 1
    /\ canvasWidth' = r.canvasWidth
    /\ canvasHeight' = r.canvasHeight
    /\ cleared' = r.cleared
    /\ slices' = r.slices
    /\ slicePtr' = r.slicePtr
    /\ canvasRows' = r.rows
    /\ wfLastDrawnCenterFreq' = r.lastDrawn
    /\ dataToDraw' = r.dataToDraw
    /\ lastWrite' = (IF r.wrote >= 0 THEN [slot |-> r.wrote, seq |-> d[1].seq]
                     ELSE lastWrite)
    /\ lastDraw' = [kind |-> r.kind, completed |-> r.completed, hadData |-> r.hadData,
                    viewCenterFreq |-> r.viewCenterFreq, prevCenter |-> r.prevCenter,
                    clearedBefore |-> r.clearedBefore,
                    clearedAtBranch |-> r.clearedAtBranch, resized |-> r.resized,
                    clearedAfter |-> r.cleared,
                    painted |-> r.painted, puts |-> r.puts,
                    prevDrawCenter |-> IF lastDraw.kind = "none"
                                       THEN wfLastDrawnCenterFreq
                                       ELSE I2R(lastDraw.viewCenterFreq)]

\* a frame handler that asks for no draw
enqueueNoDraw == UNCHANGED drawQueued

\* draw.scheduler.enqueue(draw) (771): draw is in the queue once, however
\* often it is enqueued before it runs
enqueueDraw == drawQueued' = TRUE

\* newFFTFrame(bundle) (769-772): dataHook(bundle), then draw is enqueued
newFFTFrame(fftBundle) ==
  /\ IF wfBackend = "gl"
     THEN /\ glNewData(fftBundle)
          /\ UNCHANGED <<listeners, canvasHeight, uniforms, slices,
                         wfLastDrawnCenterFreq, dataToDraw, canvasRows, lastDraw>>
     ELSE /\ performDraw(<<fftBundle>>)
          /\ UNCHANGED <<fftSize, intConversionBuffer, texture, uniforms>>
  /\ enqueueDraw
  /\ delivered' = Append(delivered, fftBundle)
  /\ UNCHANGED <<wfBackend, useFloatTexture, putImageDataNaN, wfOffsetHeight>>
  /\ UNCHANGED <<viewVars, ops, avgVars>>

\* a frame arrives in the fft cell
WfNewFFTFrame ==
  /\ Len(delivered) < MaxFrames
  /\ \E f \in WfFrames :
       newFFTFrame([seq |-> Len(delivered) + 1, freq |-> f.freq, len |-> f.len])
  /\ UNCHANGED widgetVars

\* draw() (695-697) as the scheduler runs it: drawOuter of the backend
draw ==
  /\ drawQueued
  /\ drawQueued' = FALSE
  /\ IF wfBackend = "gl"
     THEN /\ glBeforeDraw
          /\ UNCHANGED <<canvasWidth, fftSize, intConversionBuffer, texture, slicePtr,
                         slices, wfLastDrawnCenterFreq, dataToDraw, canvasRows,
                         lastWrite>>
     ELSE /\ performDraw(dataToDraw)
          /\ UNCHANGED <<fftSize, intConversionBuffer, texture, uniforms>>
  /\ UNCHANGED <<wfBackend, useFloatTexture, putImageDataNaN, wfOffsetHeight, delivered>>
  /\ UNCHANGED <<viewVars, ops, avgVars>>

\* the scheduler's tick with draw in its queue
WfScheduledDraw ==
  /\ draw
  /\ UNCHANGED widgetVars

\* the page is laid out again and the canvas gets another height
WfCanvasLayout ==
  /\ \E hh \in WfOffsetHeights \ {wfOffsetHeight} : wfOffsetHeight' = hh
  /\ UNCHANGED <<wfBackend, useFloatTexture, putImageDataNaN, canvasWidth, canvasHeight,
                 cleared, fftSize, intConversionBuffer, texture, uniforms, slicePtr,
                 slices, wfLastDrawnCenterFreq, dataToDraw, canvasRows, delivered,
                 lastWrite, lastDraw>>
  /\ UNCHANGED <<viewVars, ops, avgVars, schedVars, widgetVars>>

\* the preference and the browser under which the widget has this backend
BuiltAs(backend) ==
  /\ glObtainable = TRUE
  /\ useWebGL = (backend = "gl")

\* a waterfall of either backend, its view left alone
InitHistory ==
  /\ wfBackend \in {"gl", "2d"}
  /\ BuiltAs(wfBackend)
  /\ \E len \in (IF wfBackend = "gl" THEN WfInitialLengths ELSE {0}) : InitViewOf(len)
  /\ InitIdlePlot
  /\ InitWaterfall

NextHistory ==
  \/ WfNewFFTFrame
  \/ WfScheduledDraw
  \/ WfCanvasLayout

SpecHistory == InitHistory /\ [][NextHistory]_vars

\* the raster waterfall on a view that is retuned
InitRaster ==
  /\ wfBackend = "2d"
  /\ BuiltAs(wfBackend)
  /\ InitViewOf(0)
  /\ InitIdlePlot
  /\ InitWaterfall

NextRaster ==
  \/ WfNewFFTFrame
  \/ WfScheduledDraw
  \/ WfCanvasLayout
  \/ Retune
  \/ RunPrepare

SpecRaster == InitRaster /\ [][NextRaster]_vars

\* the raster waterfall on a view that stays as it is
NextRedraw ==
  \/ WfNewFFTFrame
  \/ WfScheduledDraw
  \/ WfCanvasLayout

SpecRedraw == InitRaster /\ [][NextRedraw]_vars

\* a waterfall of either backend listening to a view that is zoomed and
\* scrolled; the scheduler runs what is in its queue
InitZoom ==
  /\ InitHistory
  /\ fftLength = 0
  /\ wfOffsetHeight = 2
  /\ ~useFloatTexture
  /\ putImageDataNaN = "zero"

NextZoom ==
  \/ ChangeZoom
  \/ RunPrepare
  \/ ScrollEvent
  \/ WfScheduledDraw

SpecZoom ==
  /\ InitZoom
  /\ [][NextZoom]_vars
  /\ WF_vars(RunPrepare)
  /\ WF_vars(WfScheduledDraw)

\* a waterfall listening to a view that is zoomed, scrolled and resized
NextHandlers ==
  \/ ChangeZoom
  \/ RunPrepare
  \/ UserScroll
  \/ ScrollEvent
  \/ WindowResize
  \/ WfScheduledDraw

SpecHandlers == InitZoom /\ [][NextHandlers]_vars

\* newFFTFrame(bundle) of the plot (769-772): dataHook(bundle), then draw is
\* enqueued
PlotNewFFTFrame ==
  /\ Len(ingests) < MaxIngests
  /\ \E fftBundle \in Frames :
       IF plotBackend = "gl" /\ Len(fftBundle.mags) = 0
       THEN UNCHANGED <<hasAverageBuffer, averageBuffer, plotLastDrawnCenterFreq,
                        ingests>>
       ELSE commonNewData(fftBundle)
  /\ enqueueDraw
  /\ UNCHANGED <<plotBackend, spectrumAverage, plotDraw, listeners>>
  /\ UNCHANGED <<viewVars, ops, wfVars, widgetVars>>

\* the scheduler runs the plot's draw (695-697): commonBeforeDraw registers
\* draw on view.n (814) before anything else
PlotScheduledDraw ==
  /\ drawQueued
  /\ listeners <= MaxIngests
  /\ drawQueued' = FALSE
  /\ listeners' = listeners + 1
  /\ plotDraw' = plotDrawOuter
  /\ UNCHANGED <<plotBackend, spectrumAverage, hasAverageBuffer, averageBuffer,
                 plotLastDrawnCenterFreq, ingests>>
  /\ UNCHANGED <<viewVars, ops, wfVars, widgetVars>>

\* a plot constructed on the view: its draw is registered on view.n
InitPlotDraw ==
  /\ InitViewIdle
  /\ InitPlot
  /\ IdleWaterfall
  /\ listeners = 1

NextPlotDraw ==
  \/ PlotNewFFTFrame
  \/ PlotScheduledDraw

SpecPlotDraw == InitPlotDraw /\ [][NextPlotDraw]_vars

\* a GL waterfall on a view whose band or whose container may have no extent:
\* the input rate is 0, or the container is 0 pixels wide.  A quotient by 0
\* is the one value NaN here, which stands for every value that is not finite
DegenerateRates == {0, 200}
DegenerateWidths == {0, 4}

InitDegenerate ==
  /\ inputRate \in DegenerateRates
  /\ sourceFreq = 1000
  /\ fftLength = 0
  /\ offsetWidth \in DegenerateWidths
  /\ snapUp = FALSE
  /\ storage = [zoom |-> <<>>, scroll |-> <<>>]
  /\ zoom = OrElse(ParseFloat(storage.zoom), I2R(1))
  /\ stubWidth = RMul(I2R(offsetWidth), zoom)
  /\ LET initScroll == OrElse(ParseFloat(storage.scroll), I2R(0))
     IN  /\ scrollLeft = SetScrollLeft(initScroll, stubWidth, offsetWidth)
         /\ fractionalScroll = Mod1(initScroll)
  /\ AssignedLayout(prepare(zoom))
  /\ prepareQueued = FALSE
  /\ scrollEventPending = FALSE
  /\ lastView = NoView
  /\ ops = 0
  /\ wfBackend = "gl"
  /\ BuiltAs(wfBackend)
  /\ InitIdlePlot
  /\ InitWaterfall

SpecDegenerate == InitDegenerate /\ [][NextZoom]_vars

\* a view constructed over a store that holds any number as its zoom: one
\* that changeZoom wrote, or one put there by something else
AnyStoredStates ==
  StoredStates \cup {[zoom |-> NumberToString(<<1, 2>>), scroll |-> <<>>]}

InitStored ==
  /\ inputRate = 200
  /\ sourceFreq = 1000
  /\ fftLength = 60
  /\ offsetWidth = 4
  /\ snapUp \in BOOLEAN
  /\ storage \in AnyStoredStates
  /\ zoom = OrElse(ParseFloat(storage.zoom), I2R(1))
  /\ stubWidth = RMul(I2R(offsetWidth), zoom)
  /\ LET initScroll == OrElse(ParseFloat(storage.scroll), I2R(0))
     IN  /\ scrollLeft = SetScrollLeft(initScroll, stubWidth, offsetWidth)
         /\ fractionalScroll = Mod1(initScroll)
  /\ AssignedLayout(prepare(zoom))
  /\ prepareQueued = FALSE
  /\ scrollEventPending = FALSE
  /\ lastView = NoView
  /\ ops = 0
  /\ InitIdlePlot
  /\ InitIdleWaterfall

SpecStored == InitStored /\ [][NextView]_vars

\* the GL waterfall without float textures, given frames whose center
\* frequencies are below and above 2^24 Hz
PackFrames == {[freq |-> 1000, len |-> 4], [freq |-> 145500, len |-> 4],
               [freq |-> 145501, len |-> 4]}

InitPack ==
  /\ InitHistory
  /\ wfBackend = "gl"
  /\ ~useFloatTexture

PackNewFFTFrame ==
  /\ Len(delivered) < MaxFrames
  /\ \E f \in PackFrames :
       newFFTFrame([seq |-> Len(delivered) + 1, freq |-> f.freq, len |-> f.len])
  /\ UNCHANGED widgetVars

NextPack ==
  \/ PackNewFFTFrame
  \/ WfScheduledDraw

SpecPack == InitPack /\ [][NextPack]_vars

-----------------------------------------------------------------------------
(* CanvasSpectrumWidget: the choice of the backend, the loss and the        *)
(* restoration of the WebGL context, the rebuild (96-146, 669-777).  A call *)
(* on a lost context does nothing, and the textures, buffers and programs   *)
(* of a lost context are gone.                                              *)

MaxInstances == 2

\* the frames this widget is given
WidgetFrames == {f \in WfFrames : f.freq = 1000 /\ f.len > 0}

\* canvas.getContext(kind) on a canvas whose first context had the kind mode,
\* "none" on a new canvas: a canvas gives contexts of one kind only
GetContext(kind, mode) ==
  /\ mode \in {"none", kind}
  /\ kind = "webgl" => glObtainable

\* the GL backend whenever the browser has one
SelectBackendByCapability(pref) ==
  LET gl == GetContext("webgl", "none")
      ctx2d == GetContext("2d", IF gl THEN "webgl" ELSE "none")
  IN  IF gl THEN "gl" ELSE IF ctx2d THEN "2d" ELSE "none"

\* gl and ctx2d (690-691) on the new canvas (113, 678), then the branch taken
\* at 700 / 763
SelectBackend(pref) ==
  LET gl == pref /\ GetContext("webgl", "none")
      ctx2d == GetContext("2d", IF gl THEN "webgl" ELSE "none")
  IN  IF gl THEN "gl" ELSE IF ctx2d THEN "2d" ELSE "none"

\* config.target.get().length (1159)
TargetLength ==
  IF delivered = <<>> THEN fftLength ELSE delivered[Len(delivered)].len

\* a program just linked: its uniforms are 0
NewProgramUniforms ==
  [scroll |-> I2R(0), yScale |-> I2R(0), freqScale |-> I2R(0), currentFreq |-> 0]

\* another drawImpl that goes on where the last one was
buildGLKeepingCursor ==
  /\ fftSize' = Max(1, TargetLength)
  /\ intConversionBuffer' = FALSE
  /\ texture' = ConfiguredTexture
  /\ slicePtr' = slicePtr

\* buildGL(gl, buildProgram, draw) (1106-1305): the state of the new drawImpl
buildGL ==
  /\ fftSize' = Max(1, TargetLength)
  /\ intConversionBuffer' = FALSE
  /\ texture' = ConfiguredTexture
  /\ slicePtr' = 0

\* a frame arrives in the fft cell of the widget
WidgetNewFFTFrame ==
  /\ Len(delivered) < MaxFrames
  /\ \E f \in WidgetFrames :
       newFFTFrame([seq |-> Len(delivered) + 1, freq |-> f.freq, len |-> f.len])
  /\ sinceTick' = (IF drawRuns > 0 THEN 1 ELSE sinceTick + 1)
  /\ drawRuns' = 0
  /\ UNCHANGED <<useWebGL, glObtainable, contextLost, instance, builtAt, itemCache>>

\* the scheduler's tick with draw in its queue
WidgetTick ==
  /\ draw
  /\ drawRuns' = drawRuns + 1
  /\ UNCHANGED <<useWebGL, glObtainable, contextLost, instance, builtAt, sinceTick,
                 itemCache>>

\* webglcontextlost (759-761): the handler only calls preventDefault
ContextLost ==
  /\ wfBackend = "gl"
  /\ ~contextLost
  /\ contextLost' = TRUE
  /\ texture' = <<>>
  /\ uniforms' = [scroll |-> NaN]
  /\ UNCHANGED <<wfBackend, useFloatTexture, putImageDataNaN, wfOffsetHeight,
                 canvasWidth, canvasHeight, cleared, fftSize, intConversionBuffer,
                 slicePtr, slices, wfLastDrawnCenterFreq, dataToDraw, canvasRows,
                 delivered, lastWrite, lastDraw>>
  /\ UNCHANGED <<useWebGL, glObtainable, instance, builtAt, sinceTick, drawRuns,
                 itemCache>>
  /\ UNCHANGED <<viewVars, ops, avgVars, schedVars>>

\* webglcontextrestored (762): initContext (701-756) builds another drawImpl
\* and gives it dataHook and drawOuter
ContextRestored ==
  /\ wfBackend = "gl"
  /\ contextLost
  /\ contextLost' = FALSE
  /\ buildGL
  /\ uniforms' = NewProgramUniforms
  /\ builtAt' = Len(delivered)
  /\ UNCHANGED <<wfBackend, useFloatTexture, putImageDataNaN, wfOffsetHeight,
                 canvasWidth, canvasHeight, cleared, slices, wfLastDrawnCenterFreq,
                 dataToDraw, canvasRows, delivered, lastWrite, lastDraw>>
  /\ UNCHANGED <<useWebGL, glObtainable, instance, sinceTick, drawRuns, itemCache>>
  /\ UNCHANGED <<viewVars, ops, avgVars, schedVars>>

\* clientState.opengl changes: rebuildMe (674) is go (96-144), which builds
\* another widget on a new copy of the node (113-126); the constructor ends
\* with draw() (776)
OpenGLPreferenceChange ==
  /\ instance < MaxInstances
  /\ useWebGL' = ~useWebGL
  /\ instance' = instance + 1
  /\ wfBackend' = SelectBackend(useWebGL')
  /\ contextLost' = FALSE
  /\ canvasWidth' = CanvasDefaultWidth
  /\ canvasHeight' = NewHeight
  /\ cleared' = FALSE
  /\ IF wfBackend' = "gl"
     THEN /\ buildGL
          /\ uniforms' = [Uniforms EXCEPT !.scroll = I2R(0)]
          /\ wfLastDrawnCenterFreq' = NaN
          /\ canvasRows' = <<>>
          /\ listeners' = 2
     ELSE /\ fftSize' = 0
          /\ intConversionBuffer' = FALSE
          /\ texture' = <<>>
          /\ slicePtr' = 0
          /\ uniforms' = [scroll |-> NaN]
          /\ wfLastDrawnCenterFreq' = I2R(centerFreq)
          /\ canvasRows' = BlankRows(NewHeight)
          /\ listeners' = 1
  /\ slices' = <<>>
  /\ dataToDraw' = <<>>
  /\ delivered' = <<>>
  /\ lastWrite' = NoWrite
  /\ lastDraw' = NoDraw
  /\ drawQueued' = FALSE
  /\ builtAt' = 0
  /\ sinceTick' = 0
  /\ drawRuns' = 0
  /\ UNCHANGED <<glObtainable, useFloatTexture, putImageDataNaN, wfOffsetHeight,
                 itemCache>>
  /\ UNCHANGED <<viewVars, ops, avgVars>>

\* a widget built under either preference, in a browser with or without WebGL
InitWidget ==
  /\ useWebGL \in BOOLEAN
  /\ glObtainable \in BOOLEAN
  /\ wfBackend = SelectBackend(useWebGL)
  /\ \E len \in (IF wfBackend = "gl" THEN WfInitialLengths ELSE {0}) : InitViewOf(len)
  /\ InitIdlePlot
  /\ InitWaterfall

NextWidget ==
  \/ WidgetNewFFTFrame
  \/ WidgetTick
  \/ ContextLost
  \/ ContextRestored
  \/ OpenGLPreferenceChange

SpecWidget == InitWidget /\ [][NextWidget]_vars

-----------------------------------------------------------------------------
(* Properties of the averaging stage, over the history of its ingests.      *)

FreqOf(k) == ingests[k].frame.freq
MagsOf(k) == ingests[k].frame.mags

\* the center frequency recorded at the latest reset before ingest k
RECURSIVE RecordedFreq(_)
RecordedFreq(k) ==
  IF k = 1 THEN NaN
  ELSE IF ingests[k - 1].reset THEN FreqOf(k - 1) ELSE RecordedFreq(k - 1)

\* the center frequency of the frame ingested just before ingest k
PreviousFreq(k) == IF k = 1 THEN NaN ELSE FreqOf(k - 1)

ResetsExactly(k) == ingests[k].reset => ingests[k].after = MagsOf(k)

\* C4, as stated: an ingest resets iff there is no buffer, the length
\* differs, or the frame's center frequency differs from the last one seen
\* and is not NaN; a reset leaves the buffer equal to the incoming frame.
C4_ResetOnLastSeen ==
  \A k \in 1..Len(ingests) :
    /\ ingests[k].reset <=>
         \/ k = 1
         \/ Len(ingests[k].before) # Len(MagsOf(k))
         \/ (NumberDiffers(PreviousFreq(k), FreqOf(k)) /\ ~IsNaN(FreqOf(k)))
    /\ ResetsExactly(k)

\* C4, amended: an ingest resets iff there is no buffer, the length differs,
\* or the frame's center frequency is not NaN and differs from the one
\* recorded at the latest reset; a reset leaves the buffer equal to the
\* incoming frame and records its frequency; a change of center frequency
\* between two consecutive ingests of known frequency always resets.
C4_ResetOnRecorded ==
  /\ \A k \in 1..Len(ingests) :
       /\ ingests[k].reset <=>
            \/ k = 1
            \/ Len(ingests[k].before) # Len(MagsOf(k))
            \/ (NumberDiffers(RecordedFreq(k), FreqOf(k)) /\ ~IsNaN(FreqOf(k)))
       /\ ResetsExactly(k)
       /\ (k > 1 /\ ~IsNaN(FreqOf(k)) /\ ~IsNaN(FreqOf(k - 1))
             /\ FreqOf(k) # FreqOf(k - 1)) => ingests[k].reset
  /\ plotLastDrawnCenterFreq = RecordedFreq(Len(ingests) + 1)
  /\ hasAverageBuffer <=> Len(ingests) > 0

\* a frame of unknown frequency was blended in, and the next frame, of the
\* frequency recorded before it, was blended in too
C4_Witness ==
  /\ Len(ingests) = 3
  /\ ~IsNaN(FreqOf(1)) /\ IsNaN(FreqOf(2)) /\ FreqOf(3) = FreqOf(1)
  /\ ~ingests[2].reset /\ ~ingests[3].reset

\* C5: an ingest that does not reset stores, in every bin,
\* avg * (1 - a) + incoming * a, a being the cell's value at that ingest;
\* frames 10, 10, 0 at a = 0.5 on a fresh stage leave 10, 10, 5.
C5_BlendFormula ==
  /\ \A k \in 1..Len(ingests) :
       ~ingests[k].reset =>
         /\ Len(ingests[k].after) = Len(MagsOf(k))
         /\ \A i \in 1..Len(MagsOf(k)) :
              ingests[k].after[i] =
                Float32(FAdd(FMul(ingests[k].before[i],
                                  FSub(<<1, 0>>, ingests[k].alpha)),
                             FMul(MagsOf(k)[i], ingests[k].alpha)))
  /\ (/\ Len(ingests) = 3
      /\ \A k \in 1..3 : ingests[k].alpha = <<1, -1>> /\ FreqOf(k) = <<1000, 1>>
      /\ MagsOf(1) = <<F10>> /\ MagsOf(2) = <<F10>> /\ MagsOf(3) = <<F0>>)
     => /\ ingests[1].after = <<F10>>
        /\ ingests[2].after = <<F10>>
        /\ averageBuffer = <<(<<5, 0>>)>>

\* the stage blended with one coefficient, then with another, and holds 5
\* after the frames 10, 10, 0
C5_Witness ==
  /\ Len(ingests) = 3
  /\ MagsOf(1) = <<F10>> /\ MagsOf(2) = <<F10>> /\ MagsOf(3) = <<F0>>
  /\ ~ingests[2].reset /\ ~ingests[3].reset
  /\ \A k \in 1..3 : ingests[k].alpha = <<1, -1>>
  /\ averageBuffer = <<(<<5, 0>>)>>

\* ingests j+1..k feed one frame, every bin of it t, with one coefficient,
\* and none of them resets
ConstantRun(j, k) ==
  /\ 1 <= j /\ j < k /\ k <= Len(ingests)
  /\ Len(MagsOf(k)) > 0
  /\ \A i \in 1..Len(MagsOf(k)) : MagsOf(k)[i] = MagsOf(k)[1]
  /\ \A m \in (j + 1)..k :
       /\ ingests[m].frame = ingests[k].frame
       /\ ingests[m].alpha = ingests[k].alpha
       /\ ~ingests[m].reset

Distance(x, t) == FAbs(FSub(x, t))

\* |avg0 - t| * (1 - a)^n
DecayLaw(avg0, t, a, n) == FMul(Distance(avg0, t), FPow(FSub(<<1, 0>>, a), n))

NeverFarther(j, k) ==
  \A m \in (j + 1)..k : \A i \in 1..Len(MagsOf(k)) :
    FLe(Distance(ingests[m].after[i], MagsOf(k)[1]),
        Distance(ingests[m].before[i], MagsOf(k)[1]))

\* C6, as stated: after n ingests of the constant frame t with fixed a,
\* every bin has |avg_n - t| = |avg0 - t| * (1 - a)^n, and the distance to t
\* never increases.
C6_GeometricDecay ==
  \A j \in 1..Len(ingests) : \A k \in 1..Len(ingests) :
    ConstantRun(j, k) =>
      /\ \A i \in 1..Len(MagsOf(k)) :
           Distance(ingests[k].after[i], MagsOf(k)[1]) =
             DecayLaw(ingests[j].after[i], MagsOf(k)[1], ingests[k].alpha, k - j)
      /\ NeverFarther(j, k)

FMax(x, y) == IF FLe(x, y) THEN y ELSE x

\* C6, amended: the distance to t never increases; it is within
\* n * 2^-24 * max(|avg0|, |t|) of |avg0 - t| * (1 - a)^n, and equal to it
\* when no value stored during the run had to be rounded to float32.
C6_DecayUpToRounding ==
  \A j \in 1..Len(ingests) : \A k \in 1..Len(ingests) :
    ConstantRun(j, k) =>
      /\ NeverFarther(j, k)
      /\ \A i \in 1..Len(MagsOf(k)) :
           LET t == MagsOf(k)[1]
               avg0 == ingests[j].after[i]
               law == DecayLaw(avg0, t, ingests[k].alpha, k - j)
               d == Distance(ingests[k].after[i], t)
           IN  /\ FLe(Distance(d, law),
                      FMul(<<k - j, -Float32Bits>>, FMax(FAbs(avg0), FAbs(t))))
               /\ (\A m \in (j + 1)..k : ~ingests[m].rounded) => d = law

\* a run of two ingests ended at a positive distance from t
C6_Witness ==
  \E j \in 1..Len(ingests) :
    /\ ConstantRun(j, j + 2)
    /\ Distance(ingests[j].after[1], MagsOf(j + 2)[1]) # F0
    /\ Distance(ingests[j + 2].after[1], MagsOf(j + 2)[1]) # F0

-----------------------------------------------------------------------------
(* Properties of the waterfall history and of the raster waterfall.         *)

\* every frame delivered so far is non-empty, and they have one bin count
OneRun ==
  /\ Len(delivered) > 0
  /\ \A k \in 1..Len(delivered) :
       delivered[k].len # 0 /\ delivered[k].len = delivered[1].len

\* the number of the latest of n frames written by a ring into slot s, or 0
LatestIn(s, n) ==
  LET ms == {m \in 1..n : mod(m - 1, HistoryCount) = s}
  IN  IF ms = {} THEN 0 ELSE CHOOSE m \in ms : \A k \in ms : k <= m

RasterDrawn == wfBackend = "2d" /\ lastDraw.kind \notin {"none", "gl"}

\* C8: every row that a draw of the raster waterfall puts on the canvas is
\* put at x = round((f1 - f2) * binCount / bandwidth), f1 the row's center
\* frequency, f2 the view's at that draw.
C8_RowOffset ==
  RasterDrawn =>
    \A p \in lastDraw.puts :
      p.dx = PutOffset(p.freq, lastDraw.viewCenterFreq, Rat(canvasWidth, bandwidth))

\* C9: after an incremental draw the canvas shows every row where a full
\* repaint from the history would put it, at the same x.
C9_StrategiesAgree ==
  (RasterDrawn /\ lastDraw.kind = "incremental") =>
    \A p \in FullRepaintRows(slices, slicePtr, centerFreq,
                             Rat(canvasWidth, bandwidth), canvasHeight) :
      canvasRows[p.y + 1] = ImageRow(p.image, p.x)

\* C10: the incremental strategy is used only with a new frame, an unchanged
\* view center and no clear pending; the first draw after the view center
\* changed or the canvas was resized repaints every buffered row; only a
\* draw that completed resets the flag.
C10_StrategySelection ==
  RasterDrawn =>
    /\ lastDraw.kind = "incremental" =>
         /\ lastDraw.hadData
         /\ ~NumberDiffers(lastDraw.prevCenter, I2R(lastDraw.viewCenterFreq))
         /\ ~lastDraw.clearedAtBranch
    /\ (\/ NumberDiffers(lastDraw.prevDrawCenter, I2R(lastDraw.viewCenterFreq))
        \/ lastDraw.resized) =>
         /\ lastDraw.kind # "incremental"
         /\ \A y \in 1..Min(Len(slices), canvasHeight - 1) :
              \E p \in lastDraw.painted :
                p.y = y /\ p.image = SliceAtRow(slices, slicePtr, y).image
    /\ (lastDraw.clearedAtBranch /\ ~lastDraw.clearedAfter) => lastDraw.completed

-----------------------------------------------------------------------------
(* Empty frames, bin-count changes, backend selection, context loss.         *)

\* this step delivers a frame with no bins
EmptyFrameDelivered ==
  /\ Len(delivered') = Len(delivered) + 1
  /\ delivered'[Len(delivered')].len = 0

\* C11: the ingest of a frame of length zero leaves the history slots, the
\* write cursor and the pending frame of the waterfall as they were.
C11_EmptyFrameNoOp ==
  [][EmptyFrameDelivered =>
       /\ slices' = slices
       /\ texture' = texture
       /\ slicePtr' = slicePtr
       /\ dataToDraw' = dataToDraw]_vars

\* the slice width that frame k meets: the GL textures keep the bin count of
\* the latest non-empty frame, the raster canvas the length of the latest frame
WidthBefore(k) ==
  IF wfBackend = "gl"
  THEN LET js == {j \in 1..(k - 1) : delivered[j].len # 0}
       IN  IF js = {} THEN Max(1, fftLength)
           ELSE delivered[CHOOSE j \in js : \A i \in js : i <= j].len
  ELSE IF k = 1 THEN CanvasDefaultWidth ELSE delivered[k - 1].len

BinCountChangedAt(k) ==
  delivered[k].len # 0 /\ delivered[k].len # WidthBefore(k)

\* C12: once a non-empty frame of another bin count has arrived, no history
\* slot and no row of the canvas holds a frame captured before it, in either
\* backend, and the history keeps its historyCount slots.
C12_HistoryDiscarded ==
  /\ \A k \in 1..Len(delivered) :
       BinCountChangedAt(k) =>
         IF wfBackend = "gl"
         THEN \A s \in 1..Len(texture) : texture[s].row = 0 \/ texture[s].row >= k
         ELSE /\ \A s \in 1..Len(slices) : slices[s].image >= k
              /\ \A y \in 1..Len(canvasRows) :
                   canvasRows[y].image = 0 \/ canvasRows[y].image >= k
  /\ IF wfBackend = "gl" THEN Len(texture) = HistoryCount
     ELSE Len(slices) <= HistoryCount

\* a frame of another bin count followed buffered rows, and frames followed it
C12_Witness ==
  \E k \in 2..(Len(delivered) - 1) :
    /\ BinCountChangedAt(k)
    /\ delivered[k - 1].len # 0
    /\ delivered[k + 1].len = delivered[k].len
    /\ lastWrite.seq = Len(delivered)

\* the state that only the GL backend writes is as the constructor left it
RasterOnly ==
  /\ texture = <<>>
  /\ fftSize = 0
  /\ lastDraw.kind # "gl"

\* the state that only the raster backend writes is as the constructor left it
GLOnly ==
  /\ slices = <<>>
  /\ canvasRows = <<>>
  /\ dataToDraw = <<>>
  /\ lastDraw.kind \in {"none", "gl"}

\* C13: a widget has exactly one backend, and only that one takes its frames
\* and its draws: the GL backend exactly when the preference was on at
\* construction and the browser gave a WebGL context, the raster backend
\* otherwise; the backend changes only when the widget is rebuilt.
C13_OneBackend ==
  /\ [](/\ wfBackend \in {"gl", "2d"}
        /\ (wfBackend = "gl") <=> (useWebGL /\ glObtainable)
        /\ wfBackend = "gl" => GLOnly
        /\ wfBackend = "2d" => RasterOnly)
  /\ [][/\ instance' = instance => wfBackend' = wfBackend
        /\ (Len(delivered') = Len(delivered) + 1 /\ wfBackend = "gl")
             => fftSize' = delivered'[Len(delivered')].len
        /\ (Len(delivered') = Len(delivered) + 1 /\ wfBackend = "2d")
             => lastDraw'.hadData
        /\ drawRuns' = drawRuns + 1
             => (wfBackend = "gl") <=> (lastDraw'.kind = "gl")]_vars

\* a GL widget was rebuilt with the preference off, and the raster backend has
\* taken a frame and a scheduled draw
C13_Witness ==
  /\ instance = 2
  /\ glObtainable
  /\ ~useWebGL
  /\ wfBackend = "2d"
  /\ Len(delivered) >= 1
  /\ drawRuns = 1
  /\ lastDraw.kind \notin {"none", "gl"}

\* the rows of the GL history that hold a frame
WrittenRows == {s \in 1..Len(texture) : texture[s].row # 0}

\* C14: while the WebGL context is lost the widget has no textures; when the
\* context comes back the same widget (no rebuild) builds its GL state again,
\* with blank textures and the write cursor at 0, and from then on the history
\* holds only frames delivered after the restoration, written from slot 0 on.
C14_RestoredFresh ==
  /\ [](wfBackend = "gl" =>
          /\ contextLost => texture = <<>>
          /\ ~contextLost =>
               /\ Len(texture) = HistoryCount
               /\ \A s \in WrittenRows : texture[s].row > builtAt
               /\ slicePtr = (Len(delivered) - builtAt) % HistoryCount)
  /\ [][(contextLost /\ ~contextLost' /\ useWebGL' = useWebGL) =>
          /\ instance' = instance
          /\ wfBackend' = "gl"
          /\ slicePtr' = 0
          /\ WrittenRows' = {}
          /\ builtAt' = Len(delivered)]_vars

\* a context lost after a frame and restored, then a frame and a scheduled draw
C14_Witness ==
  /\ wfBackend = "gl"
  /\ instance = 1
  /\ ~contextLost
  /\ builtAt >= 1
  /\ Len(delivered) > builtAt
  /\ WrittenRows # {}
  /\ drawRuns = 1

-----------------------------------------------------------------------------
(* Claims about the accessors of SpectrumView, checked under SpecAccessors   *)
(* and SpecView.                                                            *)

PxValue(css) == ParseFloat(css[1])

\* frequencies of the visible range: its ends and two points between them
VisibleSamples ==
  LET lvf == leftVisibleFreq(layout)
      rvf == rightVisibleFreq(layout)
  IN  {lvf, rvf, RDiv(RAdd(lvf, rvf), I2R(2)),
       RAdd(lvf, RDiv(RSub(rvf, lvf), I2R(3)))}

Constructed(st) ==
  LET z == OrElse(ParseFloat(st.zoom), I2R(1))
      initScroll == OrElse(ParseFloat(st.scroll), I2R(0))
  IN  [zoom |-> z,
       initScroll |-> initScroll,
       scrollLeft |-> SetScrollLeft(initScroll, RMul(I2R(offsetWidth), z), offsetWidth),
       fractionalScroll |-> Mod1(initScroll)]

\* C17: right after a changeZoom or a scroll event, the store holds the zoom
\* and the true scroll position scrollLeft + fractionalScroll of the view, and
\* a view constructed from that store starts with the same zoom, with the
\* viewport scroll floor(scroll) and with the fraction scroll mod 1, which are
\* the scroll position and the fraction of the view that wrote the store.
C17_StoreRoundTrip ==
  lastView.op \in {"changeZoom", "scroll"} =>
    LET c == Constructed(storage)
    IN  /\ c.zoom = zoom
        /\ c.initScroll = TrueScroll
        /\ c.scrollLeft = MathFloor(TrueScroll)
        /\ c.fractionalScroll = Mod1(TrueScroll)
        /\ c.scrollLeft = scrollLeft
        /\ c.fractionalScroll = fractionalScroll

\* this step is a call of changeZoom
ChangeZoomCalled == ops' = ops + 1 /\ lastView'.op = "changeZoom"

\* this step is the scheduler running the queued prepare
QueuedPrepareRuns == prepareQueued /\ ~prepareQueued'

\* C18: a changeZoom call leaves prepare in the scheduler's queue; the queued
\* pass does run, and when it has run pixelsPerHertz = pixelWidth / bandwidth *
\* zoom, the cached scroll offset is the viewport's scroll position, and the
\* listeners registered at that moment have been notified (their draw is in
\* the queue).
C18_DeferredRecompute ==
  /\ [][ChangeZoomCalled => prepareQueued']_vars
  /\ (prepareQueued ~> ~prepareQueued)
  /\ [][QueuedPrepareRuns =>
          /\ pixelsPerHertz' = RMul(Rat(pixelWidth', bandwidth'), zoom')
          /\ cacheScrollLeft' = scrollLeft'
          /\ scrollLeft' = scrollLeft /\ zoom' = zoom
          /\ listeners' = 0
          /\ listeners > 0 => drawQueued']_vars

\* the pass queued by a changeZoom has run on a zoomed, scrolled view and has
\* put the waterfall's draw into the queue
C18_Witness ==
  /\ lastView.op = "prepare"
  /\ ops >= 1
  /\ ~prepareQueued
  /\ RLt(I2R(1), zoom)
  /\ scrollLeft > 0
  /\ cacheScrollLeft = scrollLeft
  /\ drawQueued
  /\ listeners = 0

-----------------------------------------------------------------------------
(* Claims about the scheduling of draw, checked under SpecWidget.            *)

\* this step delivers a frame to newFFTFrame
FrameDelivered == Len(delivered') = Len(delivered) + 1

\* this step is the scheduler running draw
DrawRuns == drawRuns' = drawRuns + 1

\* C19: every frame delivered is ingested by the backend during its delivery,
\* in delivery order; while a batch of k >= 1 frames has been delivered with no
\* draw between them, draw is either in the scheduler's queue and has not run,
\* or has run exactly once and is not in the queue: the k enqueues make one run.
C19_CoalescedDraw ==
  /\ [](sinceTick >= 1 => \/ drawQueued /\ drawRuns = 0
                          \/ ~drawQueued /\ drawRuns = 1)
  /\ [][FrameDelivered =>
          /\ lastWrite'.seq = Len(delivered')
          /\ drawQueued' /\ drawRuns' = 0
          /\ wfBackend = "gl" => fftSize' = delivered'[Len(delivered')].len
          /\ wfBackend = "2d" =>
               /\ lastDraw'.hadData
               /\ \E i \in 1..Len(slices') : slices'[i].image = Len(delivered')]_vars
  /\ [][DrawRuns => drawQueued /\ ~drawQueued' /\ drawRuns = 0]_vars

\* a batch of two or more frames was delivered between two ticks, each was
\* ingested, and draw has run once for the batch
C19_Witness ==
  /\ sinceTick >= 2
  /\ drawRuns = 1
  /\ ~drawQueued
  /\ lastWrite.seq = Len(delivered)
  /\ lastDraw.kind # "none"

-----------------------------------------------------------------------------
(* Claims about notification, checked under SpecZoom.                       *)

\* this step runs prepare: the queued pass, the scroll listener or changeZoom
RecomputePass ==
  \/ QueuedPrepareRuns
  \/ scrollEventPending /\ ~scrollEventPending'
  \/ ChangeZoomCalled

\* this step runs the listener draw
ListenerRuns == drawQueued /\ ~drawQueued'

-----------------------------------------------------------------------------
(* Claims about the registrations on view.n, checked under SpecHistory.      *)

\* C21: the draw callback of a renderer has at most one registration on the
\* notifier of the view that has not been notified yet, however many frames
\* and draws there were since the last recompute.
C21_SingleRegistration == listeners <= 1

\* the numbers that changeZoom and the scroll listener have put in the store
StoredNumbers == {ParseFloat(storage[k]) : k \in {k \in {"zoom", "scroll"} : storage[k] # Null}}

\* C22: when the input rate is 0 or the container is 0 pixels wide, every number
\* in the store and every uniform of the last draw is finite, and so is the
\* fractional scroll kept by changeZoom.
C22_FiniteWrites ==
  (inputRate = 0 \/ offsetWidth = 0) =>
    /\ \A q \in StoredNumbers : ~IsNaN(q)
    /\ ~IsNaN(fractionalScroll)
    /\ ~IsNaN(uniforms.scroll)
    /\ ~IsNaN(uniforms.yScale)
    /\ ~IsNaN(uniforms.freqScale)

\* C23: the zoom of the view is at least 1 in every state, the state right
\* after construction included, whatever number the store held as the zoom.
C23_ZoomAtLeastOne == RLe(I2R(1), zoom)

\* C24: the fractional scroll kept by the view is at least 0 and less than 1
\* in every state, after construction and after every changeZoom; the
\* container's scrollLeft is then the integer part of their sum.
C24_FractionInUnitInterval ==
  /\ RLe(I2R(0), fractionalScroll)
  /\ RLt(fractionalScroll, I2R(1))

-----------------------------------------------------------------------------
(* Claims about the length of the average buffer, checked under SpecAvg.     *)

\* the ingests of a frame that has bins
NonEmptyIngests == {k \in 1..Len(ingests) : Len(ingests[k].frame.mags) > 0}

\* the buffer that ingest k leaves was started anew from the frame alone
StartedAnew(k) ==
  ingests[k].after =
    Averaged(NewFloat32Array(ingests[k].frame.mags), ingests[k].frame.mags,
             ingests[k].alpha)

\* the buffer that ingest k leaves blends, bin by bin, a buffer of the frame's
\* length with the frame
BlendedInPlace(k) ==
  /\ Len(ingests[k].before) = Len(ingests[k].frame.mags)
  /\ ingests[k].after =
       Averaged(ingests[k].before, ingests[k].frame.mags, ingests[k].alpha)

\* C25: after every ingest of a frame that has bins, the average buffer is as
\* long as the frame, and each of its bins comes from the same bin of the
\* frame and of a buffer of that length: a buffer of another length is
\* replaced by a copy of the frame, never cut or extended.
C25_LengthFollowsFrame ==
  \A k \in NonEmptyIngests :
    /\ Len(ingests[k].after) = Len(ingests[k].frame.mags)
    /\ StartedAnew(k) \/ BlendedInPlace(k)
    /\ Len(ingests[k].before) # Len(ingests[k].frame.mags) => StartedAnew(k)
    /\ k = Len(ingests) => averageBuffer = ingests[k].after

\* a frame with bins has met a buffer of another, positive length, in one
\* direction and in the other
C25_Witness ==
  /\ \E k \in NonEmptyIngests :
       /\ Len(ingests[k].before) > Len(ingests[k].frame.mags)
  /\ \E k \in NonEmptyIngests :
       /\ Len(ingests[k].before) > 0
       /\ Len(ingests[k].before) < Len(ingests[k].frame.mags)

-----------------------------------------------------------------------------
(* Claims about the packed center frequency, checked under SpecPack.         *)

\* the slots of the history textures that hold a frame
WrittenSlots == {s \in 1..Len(texture) : texture[s].row > 0}

\* the center frequency, in Hz, of the frame whose magnitudes are in slot s
HzOfSlot(s) == delivered[texture[s].row].freq * 1000

\* the number whose bytes, lowest first, are v
BytesValue(v) == v[1] + 256 * (v[2] + 256 * (v[3] + 256 * v[4]))

\* C26: in the GL waterfall without float textures, the number that the
\* fragment stage unpacks from the four bytes of a slot is the center frequency
\* of the frame whose magnitudes are in that slot.
C26_PackRoundTrip ==
  \A s \in WrittenSlots : UnpackFreq(texture[s].freq) = FNorm(HzOfSlot(s), 0)

\* C26, amended: the four bytes of a slot are the bytes of the center frequency
\* of the frame whose magnitudes are in that slot; the number that the fragment
\* stage unpacks is that frequency rounded to a float of 24 bits, which is the
\* frequency itself below 2^24 Hz.
C26_PackRoundTripToFloat ==
  \A s \in WrittenSlots :
    /\ \A i \in 1..4 : texture[s].freq[i] \in 0..255
    /\ BytesValue(texture[s].freq) = HzOfSlot(s)
    /\ UnpackFreq(texture[s].freq) = Float32(FNorm(HzOfSlot(s), 0))
    /\ HzOfSlot(s) < Pow2(Float32Bits) =>
         UnpackFreq(texture[s].freq) = FNorm(HzOfSlot(s), 0)

\* the history holds a frequency below 2^24 Hz, and one above it that a float
\* of 24 bits does not hold
C26_Witness ==
  /\ \E s \in WrittenSlots : HzOfSlot(s) < Pow2(Float32Bits)
  /\ \E s \in WrittenSlots :
       Float32(FNorm(HzOfSlot(s), 0)) # FNorm(HzOfSlot(s), 0)

-----------------------------------------------------------------------------
(* Claims about the draw of the plot, checked under SpecPlotDraw.            *)

\* C27: no draw of the raster plot fails, the draw made by the constructor
\* before any frame included.
C27_DrawNeverFails == plotBackend = "2d" => plotDraw.kind # "TypeError"

-----------------------------------------------------------------------------
(* Claims about the frames of the raster waterfall and its two draws,        *)
(* checked under SpecRedraw.                                                 *)

\* this step delivers a frame with bins to the raster waterfall
FrameWithBinsDelivered ==
  /\ wfBackend = "2d"
  /\ Len(delivered') = Len(delivered) + 1
  /\ delivered'[Len(delivered')].len > 0

\* this step is the scheduled draw of the raster waterfall, no frame pending
RedrawWithoutFrame ==
  /\ wfBackend = "2d"
  /\ drawQueued /\ ~drawQueued'
  /\ dataToDraw = <<>>

\* the slots of the history and the rows of the canvas that hold frame k
SlotsHolding(ss, k) == {i \in 1..Len(ss) : ss[i].image = k}
RowsHolding(rows, k) ==
  {y \in 1..Len(rows) : rows[y].fill = "image" /\ rows[y].image = k}

\* the view and the canvas are as the latest draw saw them
NothingToRepaint ==
  /\ ~cleared
  /\ NewHeight = canvasHeight
  /\ ~NumberDiffers(wfLastDrawnCenterFreq, I2R(centerFreq))

-----------------------------------------------------------------------------
(* VisibleItemCache (1875-1910) as FreqScale uses it for its labels          *)
(* (1983-1991, 2038-2042): add is called for the records of a query, then    *)
(* flush.                                                                    *)

MaxAdds == 3

\* the records tried as keys
ItemKeys == {[type |-> "channel", freq |-> 1], [type |-> "band", freq |-> 2],
             [type |-> "group", freq |-> 3], [type |-> "marker", freq |-> 4]}

\* makeLabel(record) (1983-1991) returns an element
makeLabel(record) == record.type \in {"group", "channel", "band"}

\* add(key) (1879-1894)
add(key) ==
  LET c == itemCache
      observed == [c EXCEPT !.count = c.count + 1,
                            !.added = c.added \cup {key},
                            !.twice = c.twice \/ key \in c.added]
  IN  IF key \in c.cache
      THEN IF key \notin c.children
           THEN [observed EXCEPT !.outcome = "oops"]
           ELSE [observed EXCEPT !.inUse = c.inUse \cup {key}, !.outcome = "element"]
      ELSE IF ~makeLabel(key)
      THEN [observed EXCEPT !.outcome = "undefined"]
      ELSE [observed EXCEPT !.children = c.children \cup {key},
                            !.cache = c.cache \cup {key},
                            !.inUse = c.inUse \cup {key},
                            !.outcome = "element"]

\* flush() (1895-1909)
flush ==
  LET c == itemCache
      active == c.children \cap c.inUse
      removed == c.children \ c.inUse
      swept == [c EXCEPT !.children = active,
                         !.cache = c.cache \ removed,
                         !.inUse = c.inUse \ c.children,
                         !.added = {},
                         !.twice = FALSE,
                         !.flushed = [added |-> c.added, twice |-> c.twice]]
  IN  IF Cardinality(active) # c.count \/ Cardinality(active) # Cardinality(swept.cache)
      THEN [swept EXCEPT !.outcome = "oops3"]
      ELSE [swept EXCEPT !.count = 0, !.outcome = "flushed"]

CacheAdd ==
  /\ itemCache.count < MaxAdds
  /\ \E key \in ItemKeys : itemCache' = add(key)
  /\ UNCHANGED <<useWebGL, glObtainable, contextLost, instance, builtAt, sinceTick,
                 drawRuns>>
  /\ UNCHANGED <<viewVars, ops, avgVars, schedVars, wfVars>>

CacheFlush ==
  /\ itemCache' = flush
  /\ UNCHANGED <<useWebGL, glObtainable, contextLost, instance, builtAt, sinceTick,
                 drawRuns>>
  /\ UNCHANGED <<viewVars, ops, avgVars, schedVars, wfVars>>

InitCache == InitViewIdle /\ InitIdlePlot /\ InitIdleWaterfall

NextCache ==
  \/ CacheAdd
  \/ CacheFlush

SpecCache == InitCache /\ [][NextCache]_vars

\* C29: after add calls and a flush, the check of flush has not failed, the
\* children of the parent are the elements of the keys added since the flush
\* before, one for each key that has an element, and the cache holds those
\* keys; a key added twice and a key without an element included.
C29_FlushConsistent ==
  itemCache.outcome \in {"flushed", "oops3"} =>
    /\ itemCache.outcome = "flushed"
    /\ itemCache.children = {k \in itemCache.flushed.added : makeLabel(k)}
    /\ itemCache.cache = itemCache.children

-----------------------------------------------------------------------------
(* Claims about the 'scroll' and 'resize' listeners, checked under           *)
(* SpecHandlers.                                                             *)

\* this step is the 'scroll' listener
ScrollHandled == scrollEventPending /\ ~scrollEventPending'

\* this step is a resize of the window, the 'resize' listener included
ResizeHandled == offsetWidth' # offsetWidth

\* C30: when the 'scroll' or the 'resize' listener returns, the visible width,
\* pixelsPerHertz and the cached scroll offset are those of the container as
\* it is now, and the callbacks registered on view.n have been notified;
\* prepare has not been left to the scheduler.
C30_SynchronousRecompute ==
  [][(ScrollHandled \/ ResizeHandled) =>
       /\ pixelWidth' = offsetWidth'
       /\ cacheScrollLeft' = scrollLeft'
       /\ pixelsPerHertz' = RMul(Rat(offsetWidth', inputRate'), zoom')
       /\ listeners > 0 => drawQueued'
       /\ listeners' = 0
       /\ prepareQueued' = prepareQueued]_vars

\* the window has been resized and the container scrolled, and the 'scroll'
\* listener has run last, with a draw callback to notify
C30_Witness ==
  /\ lastView.op = "scroll"
  /\ offsetWidth # 4
  /\ pixelWidth = offsetWidth
  /\ scrollLeft > 0
  /\ cacheScrollLeft = scrollLeft
  /\ drawQueued

====
